---- MODULE Spec2Model ----
(***************************************************************************)
(* AI Visibility Testing Engine of the GEO app (backend/app/services).     *)
(*                                                                         *)
(*   - the provider gateway    MultiProviderAI         (ai_service.py)     *)
(*   - the query orchestrator  SpeedTestService        (speed_test.py)     *)
(*   - the response analyzer and the score aggregator  (speed_test.py)     *)
(*                                                                         *)
(* Texts are TLA+ strings; an upstream service is a nondeterministic       *)
(* choice among the replies a call can produce (an exception, an empty     *)
(* text, an answer).                                                       *)
(***************************************************************************)
EXTENDS Integers, Sequences, FiniteSets, TLC

VARIABLES
    \* ---- MultiProviderAI: built once by __init__/_init_providers
    providers,          \* self.providers: the set of provider names that were initialised
    provider_order,     \* self.provider_order: the parsed priority list
    genai_new_sdk,      \* whether `from google import genai` succeeded (new SDK client)
    has_responses,      \* hasattr(client, 'responses') of the OpenAI client
    \* ---- one MultiProviderAI.generate call
    g_pc,               \* "idle" | "loop" | "returned"
    g_opts,             \* [json_mode, web_search] of the call
    g_idx,              \* position of the for loop in provider_order
    g_ret,              \* the value handed to the caller (text, None, or an escaped exception)
    g_tried,            \* history: every provider invoked by the call, with its attempts
    \* ---- SpeedTestService.run_test / _query_all_parallel
    ai_service_ok,      \* self.ai_service is not None (the import of ai_service succeeded)
    r_pc,               \* "idle" | "gathering" | "done" | "raised"
    brand_name,         \* brand_context.brand_name
    prompts,            \* the prompts of the run: <<[text, category], ...>>
    tasks,              \* the coroutines handed to asyncio.gather, in creation order
    loop_thread,        \* index of the task running on the event-loop thread, 0 if none
    all_results,        \* what _query_all_parallel returned
    score_response,     \* the ScoreResponse run_test returned
    \* ---- VisibilityMonitor._analyze_response
    m_pc,               \* "idle" | "done"
    m_input,            \* [brand, competitors, response, judged] of the last call
    m_result,           \* the signals of the PromptResult it returned
    \* ---- CompetitorAnalyzer.discover_top_competitors
    c_pc,               \* "idle" | "claude" | "gemini" | "default" | "returned"
    c_request,          \* [brand, category, location] of the call
    c_response,         \* the local variable `response`
    c_calls,            \* history: every self.ai call made, with what it produced
    c_result,           \* the CompetitorDiscoveryResult handed to the caller
    \* ---- CompetitorAnalyzer.generate_comparison_report
    report_args,        \* [user_score, comp_scores] of the last call
    comparison,         \* the dict it returned
    \* ---- VisibilityMonitor.run_comprehensive_test
    ct_pc,              \* "idle" | "testing" | "done"
    ct_prompts,         \* the prompts generate_smart_prompts returned
    ct_pos,             \* <<index of the prompt, index of the model>> under test
    ct_results,         \* `results` of the test_across_models call in progress
    prompt_summaries,   \* the list of that name
    ct_report,          \* the dict run_comprehensive_test returned
    \* ---- SpeedTestService.run_test, the prompts it generates
    brand_context       \* the BrandContext of a run_test call without custom questions

gatewayVars == <<providers, provider_order, genai_new_sdk, has_responses>>
generateVars == <<g_pc, g_opts, g_idx, g_ret, g_tried>>
runVars ==
    <<ai_service_ok, r_pc, brand_name, prompts, tasks, loop_thread, all_results, score_response>>
monitorVars == <<m_pc, m_input, m_result>>
competitorVars == <<c_pc, c_request, c_response, c_calls, c_result>>
reportVars == <<report_args, comparison>>
comprehensiveVars == <<ct_pc, ct_prompts, ct_pos, ct_results, prompt_summaries, ct_report>>
promptVars == <<brand_context>>
vars ==
    <<gatewayVars, generateVars, runVars, monitorVars, competitorVars, reportVars,
      comprehensiveVars, promptVars>>

-----------------------------------------------------------------------------
(* Strings                                                                 *)

UpperAlpha == "ABCDEFGHIJKLMNOPQRSTUVWXYZ"
LowerAlpha == "abcdefghijklmnopqrstuvwxyz"

\* s[i:i+1]: the character at index i (from 1), "" outside the string
Char(s, i) == IF i >= 1 /\ i <= Len(s) THEN SubSeq(s, i, i) ELSE ""

\* s[a-1:b]: the slice from index a to index b, cut at the end of the string
Slice(s, a, b) == IF a > Len(s) THEN "" ELSE SubSeq(s, a, IF b > Len(s) THEN Len(s) ELSE b)

IsUpper(c) == \E i \in 1..Len(UpperAlpha) : Char(UpperAlpha, i) = c
IsLower(c) == \E i \in 1..Len(LowerAlpha) : Char(LowerAlpha, i) = c
IsSpace(c) == c \in {" ", "\t", "\n", "\r", "\f"}

\* str.lower() on one character
LowerChar(c) ==
    IF IsUpper(c)
    THEN Char(LowerAlpha, CHOOSE i \in 1..Len(UpperAlpha) : Char(UpperAlpha, i) = c)
    ELSE c

\* the only element of a one-element set.  A value bound as  x \in {e}  is
\* computed once, where a LET definition is computed again at each use.
The(S) == CHOOSE x \in S : TRUE

\* str.lower(): every character lower-cased, the string taken by halves
RECURSIVE Lower(_)
Lower(s) ==
    IF Len(s) <= 1 THEN LowerChar(s)
    ELSE The({ Lower(SubSeq(s, 1, h)) \o Lower(SubSeq(s, h + 1, Len(s))) :
               h \in {Len(s) \div 2} })

\* str.strip(): drops leading and trailing whitespace
LStrip(s) ==
    IF \A i \in 1..Len(s) : IsSpace(Char(s, i)) THEN ""
    ELSE SubSeq(s, CHOOSE i \in 1..Len(s) :
                       /\ ~IsSpace(Char(s, i))
                       /\ \A j \in 1..(i - 1) : IsSpace(Char(s, j)),
                Len(s))
RStrip(s) ==
    IF \A i \in 1..Len(s) : IsSpace(Char(s, i)) THEN ""
    ELSE SubSeq(s, 1, CHOOSE i \in 1..Len(s) :
                          /\ ~IsSpace(Char(s, i))
                          /\ \A j \in (i + 1)..Len(s) : IsSpace(Char(s, j)))
Strip(s) == RStrip(LStrip(s))

\* the fields of s between the separators at the indices `at`: one more field
\* than separators, an empty field between two adjacent separators
Fields(s, at) ==
    LET cut(k) == IF k = 0 THEN 0
                  ELSE IF k > Cardinality(at) THEN Len(s) + 1
                  ELSE CHOOSE i \in at : Cardinality({j \in at : j < i}) = k - 1
    IN  [k \in 1..(Cardinality(at) + 1) |->
            IF cut(k - 1) + 1 > cut(k) - 1 THEN ""
            ELSE SubSeq(s, cut(k - 1) + 1, cut(k) - 1)]

\* str.split(sep) for a one-character separator: always at least one field
Split(s, sep) == Fields(s, {i \in 1..Len(s) : Char(s, i) = sep})

\* `sub in s`
Contains(s, sub) ==
    \E i \in 1..(Len(s) - Len(sub) + 1) : SubSeq(s, i, i + Len(sub) - 1) = sub

\* str.startswith
StartsWith(s, pre) == Len(pre) <= Len(s) /\ SubSeq(s, 1, Len(pre)) = pre

\* str.replace(c, r) for a one-character c
RECURSIVE Replace(_, _, _)
Replace(s, c, r) ==
    IF Len(s) <= 1 THEN (IF s = c THEN r ELSE s)
    ELSE The({ Replace(SubSeq(s, 1, h), c, r) \o Replace(SubSeq(s, h + 1, Len(s)), c, r) :
               h \in {Len(s) \div 2} })

\* ' '.join(parts)
RECURSIVE Join(_, _)
Join(parts, sep) ==
    IF Len(parts) = 0 THEN ""
    ELSE IF Len(parts) = 1 THEN parts[1]
    ELSE parts[1] \o sep \o Join(Tail(parts), sep)

Digits == "0123456789"
IsDigit(c) == \E i \in 1..Len(Digits) : Char(Digits, i) = c
DigitVal(c) == (CHOOSE i \in 1..Len(Digits) : Char(Digits, i) = c) - 1

\* int(s) for a string of digits
RECURSIVE ParseInt(_)
ParseInt(s) ==
    IF s = "" THEN 0
    ELSE ParseInt(SubSeq(s, 1, Len(s) - 1)) * Len(Digits) + DigitVal(Char(s, Len(s)))

\* c matches the regex character class
InClass(class, c) ==
    CASE class = "\\s" -> IsSpace(c)
      [] class = "\\d" -> IsDigit(c)
      [] class = "[a-z]" -> IsLower(c)
      [] class = "[a-zA-Z\\s&]" -> IsUpper(c) \/ IsLower(c) \/ IsSpace(c) \/ c = "&"

\* the last index of the longest run of characters of the class that starts at i
\* (i - 1 when s[i] is not in the class): a greedy  [class]*  of a regex
RunEnd(s, i, class) ==
    IF i > Len(s) THEN i - 1
    ELSE CHOOSE j \in (i - 1)..Len(s) :
             /\ \A k \in i..j : InClass(class, Char(s, k))
             /\ j = Len(s) \/ ~InClass(class, Char(s, j + 1))

\* re.split(r'[...]', s) for a class P of one-character separators
ReSplit(s, seps) == Fields(s, {i \in 1..Len(s) : Char(s, i) \in seps})

\* [x for x in seq if P(x)]
RECURSIVE Filter(_, _)
Filter(seq, keep) ==
    IF Len(seq) = 0 THEN <<>>
    ELSE (IF Head(seq) \in keep THEN <<Head(seq)>> ELSE <<>>) \o Filter(Tail(seq), keep)

\* sorted(seq, key=...) for integer keys given as a parallel sequence: stable
SortByKey(seq, keys) ==
    [k \in 1..Len(seq) |->
        seq[CHOOSE i \in 1..Len(seq) :
                Cardinality({j \in 1..Len(seq) :
                                keys[j] < keys[i] \/ (keys[j] = keys[i] /\ j < i)}) = k - 1]]

-----------------------------------------------------------------------------
(* MultiProviderAI: the provider table                                     *)

AllProviders == {"anthropic", "openai", "google", "perplexity"}

\* the exception marker of an upstream reply, and Python's None
RAISE == "<raise>"
None == "<None>"
Pending == "<pending>"      \* a call that has not returned yet
Escaped == "<exception>"    \* an exception left the function

\* the settings.ai_provider_priority strings the model is started with
PriorityStrings ==
    { "anthropic,openai,google",        \* the default of config.py
      "Google, openai ,anthropic",
      "openai,perplexity",
      "openai,mistral,anthropic",
      "" }

\* _init_providers: provider_order = [p.strip().lower() for p in priority.split(",")]
ParsePriority(s) ==
    LET fields == Split(s, ",")
    IN  [i \in 1..Len(fields) |-> Lower(Strip(fields[i]))]

\* _init_providers: the entry self.providers[p]
ProviderEntry(p) ==
    CASE p = "anthropic" ->
            [model |-> "claude-sonnet-4-20250514",
             fallback_model |-> "claude-3-5-sonnet-20241022", name |-> "Claude"]
      [] p = "openai" ->
            [model |-> "gpt-5.1", fallback_model |-> "gpt-5.1-mini", name |-> "GPT-5.1"]
      [] p = "google" ->
            IF genai_new_sdk
            THEN [model |-> "gemini-3-pro-preview",
                  fallback_model |-> "gemini-2.0-flash-exp", name |-> "Gemini 3 Pro"]
            ELSE [model |-> "gemini-1.5-pro",
                  fallback_model |-> "gemini-1.5-flash", name |-> "Gemini 1.5 (Legacy)"]
      [] p = "perplexity" ->
            [model |-> "sonar", fallback_model |-> "sonar-pro", name |-> "Perplexity"]

\* is_available
is_available == Cardinality(providers) > 0

\* get_available_providers
get_available_providers == providers

-----------------------------------------------------------------------------
(* MultiProviderAI: the upstream calls                                     *)

\* what one upstream request can produce: an exception, an empty text, an answer
\* the brands a run is made for
Brands == {"Acme"}

AnswerTexts ==
    { "1. Acme is the best.\n2. Nike",
      "Try Nike or Adidas.",
      "- Nike\n- Puma\n- Asics\n- Fila\n- Acme has limited range" }
Replies == {RAISE, ""} \cup AnswerTexts

\* Python truthiness of an Optional[str]
Truthy(r) == r # "" /\ r # None

Attempt(p, variant, model, reply) ==
    [provider |-> p, variant |-> variant, model |-> model, reply |-> reply]

\* a completed _call_* : the upstream attempts it made, and what it returned
\* (result = RAISE when it raised)
Run(attempts, result) == [attempts |-> attempts, result |-> result]

\* try: primary / except: fallback / except: raise  (the tail of every _call_*)
PrimaryThenFallback(p, before) ==
    LET e == ProviderEntry(p)
    IN  { Run(before \o <<Attempt(p, "primary", e.model, r1)>>, r1) :
              r1 \in Replies \ {RAISE} }
        \cup
        { Run(before \o <<Attempt(p, "primary", e.model, RAISE),
                          Attempt(p, "fallback", e.fallback_model, r2)>>, r2) :
              r2 \in Replies }

\* _call_anthropic
CallAnthropic(p) == PrimaryThenFallback(p, <<>>)

\* _call_openai, the `if web_search:` block: the attempt it makes and, for each reply,
\* whether the function returns there (a reply other than an exception) or falls
\* through to the standard flow
WebSearchAttempts(p) ==
    IF has_responses
    THEN \* client.responses.create(model="gpt-5"); a response without output_text
         \* is returned as str(response)
         { Attempt(p, "web_search", "gpt-5", r) :
               r \in Replies \cup {"<Response object>"} }
    ELSE { Attempt(p, "web_search", "gpt-4o-search-preview", r) : r \in Replies }

\* _call_openai (also used for perplexity)
CallOpenAI(p, json_mode, web_search) ==
    IF web_search
    THEN UNION { IF a.reply = RAISE
                 THEN PrimaryThenFallback(p, <<a>>)
                 ELSE { Run(<<a>>, a.reply) } : a \in WebSearchAttempts(p) }
    ELSE PrimaryThenFallback(p, <<>>)

\* _call_google: the new SDK re-raises the primary's exception when the fallback
\* raises too; the legacy SDK is primary / fallback / raise
CallGoogle(p, web_search) == PrimaryThenFallback(p, <<>>)

\* generate: the if/elif chain that picks the _call_* of a provider name
Dispatch(p, opts) ==
    CASE p = "anthropic" -> CallAnthropic(p)
      [] p = "openai" -> CallOpenAI(p, opts.json_mode, opts.web_search)
      [] p = "google" -> CallGoogle(p, opts.web_search)
      [] p = "perplexity" -> CallOpenAI(p, opts.json_mode, FALSE)

\* generate_with_model after an upstream attempt of `variant` answered `reply`:
\* either one more attempt (more = TRUE) or the value it returns.  anthropic calls
\* client.messages.create once and turns an exception into None; openai goes through
\* _call_openai, whose primary attempt is followed by a fallback attempt when it raises.
GenerateWithModelStep(provider, variant, reply) ==
    IF provider = "openai" /\ variant = "primary" /\ reply = RAISE
    THEN [more |-> TRUE, variant |-> "fallback", ret |-> Pending]
    ELSE [more |-> FALSE, variant |-> variant,
          ret |-> IF reply = RAISE THEN None ELSE reply]

\* generate_with_model: the model an upstream attempt is made with.  The openai
\* branch passes self.providers["openai"] to _call_openai and drops `model`.
GenerateWithModelTarget(provider, model, variant) ==
    IF provider = "openai"
    THEN (IF variant = "primary" THEN ProviderEntry(provider).model
          ELSE ProviderEntry(provider).fallback_model)
    ELSE model

-----------------------------------------------------------------------------
(* MultiProviderAI.generate                                                *)

\* `continue`: the for loop moves to the next name of provider_order
Continue(idx) == [pc |-> "loop", idx |-> idx + 1, ret |-> Pending]
\* `return v`
Return(idx, v) == [pc |-> "returned", idx |-> idx, ret |-> v]

\* AfterProvider without the `return result`: the loop goes on after a success
AfterProviderNoReturn(idx, result) == Continue(idx)

\* AfterProvider without the `except Exception` clause: the exception leaves generate
AfterProviderUncaught(idx, result) ==
    IF result = RAISE THEN Return(idx, Escaped)
    ELSE IF Truthy(result) THEN Return(idx, result)
    ELSE Continue(idx)

\* the body of the for loop after the _call_* of provider_order[idx] ended:
\* `if result: return result`, `except Exception: continue`, else the next iteration
AfterProvider(idx, result) ==
    IF result = RAISE THEN Continue(idx)
    ELSE IF Truthy(result) THEN Return(idx, result)
    ELSE Continue(idx)

\* a caller starts generate(prompt, ..., json_mode, web_search)
GenerateCall ==
    /\ g_pc \in {"idle", "returned"}
    /\ \E jm \in BOOLEAN, ws \in BOOLEAN : g_opts' = [json_mode |-> jm, web_search |-> ws]
    /\ g_tried' = <<>>
    /\ g_idx' = 1
    /\ IF ~is_available
       THEN g_pc' = "returned" /\ g_ret' = None
       ELSE g_pc' = "loop" /\ g_ret' = Pending
    /\ UNCHANGED <<gatewayVars, runVars, monitorVars, competitorVars, reportVars, comprehensiveVars, promptVars>>

\* `if provider_name not in self.providers: continue`
SkipProvider ==
    /\ g_pc = "loop"
    /\ g_idx <= Len(provider_order)
    /\ provider_order[g_idx] \notin providers
    /\ g_idx' = Continue(g_idx).idx
    /\ UNCHANGED <<g_pc, g_opts, g_ret, g_tried>>
    /\ UNCHANGED <<gatewayVars, runVars, monitorVars, competitorVars, reportVars, comprehensiveVars, promptVars>>

\* TryProvider with a circuit breaker: a provider that failed is taken out of
\* self.providers
TryProviderEvicting ==
    /\ g_pc = "loop"
    /\ g_idx <= Len(provider_order)
    /\ provider_order[g_idx] \in providers
    /\ \E run \in Dispatch(provider_order[g_idx], g_opts) :
         LET next == AfterProvider(g_idx, run.result)
         IN  /\ g_tried' = Append(g_tried, [pos |-> g_idx,
                                            provider |-> provider_order[g_idx],
                                            attempts |-> run.attempts,
                                            result |-> run.result])
             /\ g_pc' = next.pc
             /\ g_idx' = next.idx
             /\ g_ret' = next.ret
             /\ providers' = IF run.result = RAISE \/ ~Truthy(run.result)
                             THEN providers \ {provider_order[g_idx]}
                             ELSE providers
    /\ UNCHANGED <<g_opts, provider_order, genai_new_sdk, has_responses>>
    /\ UNCHANGED <<runVars, monitorVars, competitorVars, reportVars, comprehensiveVars, promptVars>>

\* one iteration of the for loop on a configured provider
TryProvider ==
    /\ g_pc = "loop"
    /\ g_idx <= Len(provider_order)
    /\ provider_order[g_idx] \in providers
    /\ \E run \in Dispatch(provider_order[g_idx], g_opts) :
         LET next == AfterProvider(g_idx, run.result)
         IN  /\ g_tried' = Append(g_tried, [pos |-> g_idx,
                                            provider |-> provider_order[g_idx],
                                            attempts |-> run.attempts,
                                            result |-> run.result])
             /\ g_pc' = next.pc
             /\ g_idx' = next.idx
             /\ g_ret' = next.ret
    /\ UNCHANGED g_opts
    /\ UNCHANGED <<gatewayVars, runVars, monitorVars, competitorVars, reportVars, comprehensiveVars, promptVars>>

\* the loop is over: logger.error("All AI providers failed"); return None
AllFailed ==
    /\ g_pc = "loop"
    /\ g_idx > Len(provider_order)
    /\ g_pc' = "returned"
    /\ g_ret' = None
    /\ UNCHANGED <<g_opts, g_idx, g_tried>>
    /\ UNCHANGED <<gatewayVars, runVars, monitorVars, competitorVars, reportVars, comprehensiveVars, promptVars>>

\* a float ratio, kept exact, with den > 0
Ratio(num, den) == [num |-> num, den |-> den]

\* the ScoreResponse variable before run_test returned one
NoResponse == [score |-> 0, verdict |-> "", grade |-> "", total_tests |-> 0,
               total_mentions |-> 0, mention_rate |-> Ratio(0, 1)]

\* no _analyze_response call made yet
MonitorIdle ==
    /\ m_pc = "idle"
    /\ m_input = [brand |-> "", competitors |-> <<>>, response |-> "", judged |-> None]
    /\ m_result = [brand_mentioned |-> FALSE, position |-> <<>>, sentiment |-> "neutral",
                   competitors_mentioned |-> <<>>]

\* CompetitorDiscoveryResult(brand=..., category=..., location=...): the other
\* fields take their defaults
CompetitorDiscoveryResult(brand, category, location) ==
    [brand |-> brand, category |-> category, location |-> location,
     local_competitors |-> <<>>, global_competitors |-> <<>>, total_found |-> 0,
     size_breakdown |-> <<>>]

\* BrandContext(brand_name=..., product_category=..., location=...,
\* known_competitors=...)
BrandContext(brand, category, location, known_competitors) ==
    [brand_name |-> brand, product_category |-> category, location |-> location,
     known_competitors |-> known_competitors]

\* no run_test call has built a context yet
NoContext == BrandContext("", "", None, <<>>)

\* no run_comprehensive_test call made yet
ComprehensiveIdle ==
    /\ ct_pc = "idle"
    /\ ct_prompts = <<>>
    /\ ct_pos = <<1, 1>>
    /\ ct_results = <<>>
    /\ prompt_summaries = <<>>
    /\ ct_report = <<>>

\* no generate_comparison_report call made yet
ReportIdle ==
    /\ report_args = [user_score |-> 0, comp_scores |-> <<>>]
    /\ comparison = [user_score |-> 0, competitors |-> <<>>, ranking |-> 1,
                     total_analyzed |-> 0, rank_insight |-> ""]

\* no discover_top_competitors call made yet
CompetitorIdle ==
    /\ c_pc = "idle"
    /\ c_request = [brand |-> "", category |-> "", location |-> None]
    /\ c_response = None
    /\ c_calls = <<>>
    /\ c_result = CompetitorDiscoveryResult("", "", None)

\* no run_test in progress
RunIdle ==
    /\ ai_service_ok = TRUE
    /\ r_pc = "idle"
    /\ brand_name = ""
    /\ prompts = <<>>
    /\ tasks = <<>>
    /\ loop_thread = 0
    /\ all_results = <<>>
    /\ score_response = NoResponse

\* __init__: the provider table and the priority list, then no call in progress
GatewayInit ==
    /\ providers \in SUBSET AllProviders
    /\ \E s \in PriorityStrings : provider_order = ParsePriority(s)
    /\ genai_new_sdk \in BOOLEAN
    /\ has_responses \in BOOLEAN
    /\ g_pc = "idle"
    /\ g_opts = [json_mode |-> FALSE, web_search |-> FALSE]
    /\ g_idx = 1
    /\ g_ret = Pending
    /\ g_tried = <<>>
    /\ RunIdle
    /\ MonitorIdle
    /\ CompetitorIdle
    /\ ReportIdle
    /\ ComprehensiveIdle
    /\ brand_context = NoContext

GatewayNext == GenerateCall \/ SkipProvider \/ TryProvider \/ AllFailed

GatewaySpec == GatewayInit /\ [][GatewayNext]_vars

-----------------------------------------------------------------------------
(* SpeedTestService: the response analyzer.  An Optional[int] is a         *)
(* sequence: <<>> for None, <<n>> for n.                                   *)

\* _brand_in_response
BrandInResponse(brand, response) ==
    IF response = "" THEN FALSE
    ELSE LET response_lower == Lower(response)
             brand_lower == Lower(brand)
         IN  \/ Contains(response_lower, brand_lower)
             \/ Contains(Replace(response_lower, " ", ""), Replace(brand_lower, " ", ""))
             \/ Contains(response_lower, Replace(brand_lower, " ", "-"))

\* re.match(r'^[\s]*(\d+)[.\):\-]', line): the digits of group 1, "" when no match
NumberedMatch(line) ==
    LET a == RunEnd(line, 1, "\\s") + 1
        b == RunEnd(line, a, "\\d")
    IN  IF b >= a /\ b < Len(line) /\ Char(line, b + 1) \in {".", ")", ":", "-"}
        THEN SubSeq(line, a, b)
        ELSE ""

\* line.strip().startswith(('-', '*', bullet)); the texts of the model are ASCII
IsBullet(line) == StartsWith(Strip(line), "-") \/ StartsWith(Strip(line), "*")

\* _find_position: the for loop over the lines, from line i on
RECURSIVE FindPositionFrom(_, _, _)
FindPositionFrom(brand_lower, lines, i) ==
    IF i > Len(lines) THEN <<>>
    ELSE LET line == lines[i]
             line_lower == Lower(line)
             hit == \/ Contains(line_lower, brand_lower)
                    \/ Contains(Replace(line_lower, " ", ""), Replace(brand_lower, " ", ""))
         IN  IF hit /\ NumberedMatch(line) # ""
             THEN <<ParseInt(NumberedMatch(line))>>
             ELSE IF hit /\ IsBullet(line)
             THEN <<Cardinality({j \in 1..i : IsBullet(lines[j])})>>
             ELSE FindPositionFrom(brand_lower, lines, i + 1)

\* _find_position
FindPosition(brand, response) ==
    IF response = "" THEN <<>>
    ELSE FindPositionFrom(Lower(brand), Split(response, "\n"), 1)

positive_words ==
    { "best", "excellent", "great", "top", "leading", "recommend",
      "outstanding", "innovative", "quality", "trusted", "reliable",
      "popular", "favorite", "preferred", "premium", "loved" }

negative_words ==
    { "bad", "poor", "avoid", "problem", "issue", "complaint",
      "expensive", "overpriced", "disappointing", "lacks", "limited" }

\* the sentences of a text: re.split(r'[.!?]', response)
Sentences(response) == ReSplit(response, {".", "!", "?"})

\* [x for x in seq if sub in x.lower()]
RECURSIVE Having(_, _)
Having(seq, sub) ==
    IF Len(seq) = 0 THEN <<>>
    ELSE (IF Contains(Lower(Head(seq)), sub) THEN <<Head(seq)>> ELSE <<>>)
         \o Having(Tail(seq), sub)

\* _analyze_sentiment
AnalyzeSentiment(response, brand) ==
    IF response = "" THEN "neutral"
    ELSE LET brand_sentences == Having(Sentences(response), Lower(brand))
             text == Lower(Join(brand_sentences, " "))
             positive_count == Cardinality({w \in positive_words : Contains(text, w)})
             negative_count == Cardinality({w \in negative_words : Contains(text, w)})
         IN  IF Len(brand_sentences) = 0 THEN "neutral"
             ELSE IF positive_count > negative_count THEN "positive"
             ELSE IF negative_count > positive_count THEN "negative"
             ELSE "neutral"

\* regex classes of _extract_brands_from_response
IsAlpha(c) == IsUpper(c) \/ IsLower(c)
IsWordChar(c) == IsAlpha(c) \/ IsDigit(c) \/ c = "_"      \* \w
IsBrandChar(c) == IsAlpha(c) \/ IsSpace(c) \/ c = "&"     \* [a-zA-Z\s&]
WordEnd(s, j) == j = Len(s) \/ ~IsWordChar(Char(s, j + 1))    \* \b after s[j]
WordStart(s, i) == i = 1 \/ ~IsWordChar(Char(s, i - 1))       \* \b before s[i]

NoMatch == [end |-> 0, group |-> ""]
Match(s, from, to, end) == [end |-> end, group |-> SubSeq(s, from, to)]

\* r'\*\*([A-Z][a-zA-Z\s&]+?)\*\*' tried at index i
BoldAt(s, i) ==
    LET r == RunEnd(s, i + 3, "[a-zA-Z\\s&]")
    IN  IF /\ Slice(s, i, i + 1) = "**"
           /\ i + 2 <= Len(s) /\ IsUpper(Char(s, i + 2))
           /\ r >= i + 3
           /\ Slice(s, r + 1, r + 2) = "**"
        THEN Match(s, i + 2, r, r + 2)
        ELSE NoMatch

\* r'\b([A-Z][a-z]+(?:\s+[A-Z][a-z]+)?)\b' tried at index i
CapitalizedAt(s, i) ==
    LET j == RunEnd(s, i + 1, "[a-z]")      \* end of the first word
        w == RunEnd(s, j + 1, "\\s")      \* end of the blanks after it
        k == RunEnd(s, w + 2, "[a-z]")      \* end of the second word
        first == WordStart(s, i) /\ IsUpper(Char(s, i)) /\ j >= i + 1
        second == /\ w >= j + 1
                  /\ w + 1 <= Len(s) /\ IsUpper(Char(s, w + 1))
                  /\ k >= w + 2
                  /\ WordEnd(s, k)
    IN  IF first /\ second THEN Match(s, i, k, k)
        ELSE IF first /\ WordEnd(s, j) THEN Match(s, i, j, j)
        ELSE NoMatch

\* r'(?:\d+[.\)]\s*)([A-Z][a-zA-Z\s&]+)' tried at index i
NumberedAt(s, i) ==
    LET d == RunEnd(s, i, "\\d")
        w == RunEnd(s, d + 2, "\\s")
        r == RunEnd(s, w + 2, "[a-zA-Z\\s&]")
    IN  IF /\ d >= i
           /\ d + 1 <= Len(s) /\ Char(s, d + 1) \in {".", ")"}
           /\ w + 1 <= Len(s) /\ IsUpper(Char(s, w + 1))
           /\ r >= w + 2
        THEN Match(s, w + 1, r, r)
        ELSE NoMatch

\* re.findall: the groups of the leftmost non-overlapping matches, m[i] being the
\* match tried at index i
RECURSIVE FindAll(_, _, _)
FindAll(m, n, i) ==
    IF \A k \in i..n : m[k].end = 0 THEN <<>>
    ELSE The({ <<m[k].group>> \o FindAll(m, n, m[k].end + 1) :
               k \in {CHOOSE k \in i..n :
                          m[k].end > 0 /\ \A j \in i..(k - 1) : m[j].end = 0} })

skip_words ==
    { "the", "and", "for", "with", "this", "that", "these", "those",
      "here", "there", "when", "what", "which", "who", "how", "why",
      "best", "top", "great", "good", "nice", "quality", "price",
      "overall", "however", "although", "because", "since", "while",
      "brand", "brands", "product", "products", "option", "options",
      "choice", "choices", "alternative", "alternatives", "recommend",
      "known", "popular", "famous", "leading", "premier", "luxury",
      "high", "low", "mid", "range", "end", "tier", "level",
      "pros", "cons", "features", "benefits" }

\* the matches of the three brand_patterns, in the order the loops visit them
BrandMatches(response) ==
    LET n == Len(response)
    IN  FindAll([i \in 1..n |-> BoldAt(response, i)], n, 1)
        \o FindAll([i \in 1..n |-> CapitalizedAt(response, i)], n, 1)
        \o FindAll([i \in 1..n |-> NumberedAt(response, i)], n, 1)

\* the inner loop with only its first `continue` test, the one on skip_words
SkippedBrandStopWordOnly(brand, user_brand_lower) ==
    Lower(brand) \in skip_words

\* the four `continue` tests of the inner loop on brand = match.strip()
SkippedBrand(brand, user_brand_lower) ==
    \/ Lower(brand) \in skip_words
    \/ Lower(brand) = user_brand_lower
    \/ Contains(Lower(brand), user_brand_lower)
    \/ Len(brand) < 3
    \/ Len(brand) > 30
    \/ \E i \in 1..Len(brand) : IsDigit(Char(brand, i))

\* the inner loop: brands_found after the matches from index i on were visited
RECURSIVE CollectBrands(_, _, _, _)
CollectBrands(matches, i, user_brand_lower, brands_found) ==
    IF i > Len(matches) THEN brands_found
    ELSE LET brand == Strip(matches[i])
         IN  IF \/ SkippedBrand(brand, user_brand_lower)
                \/ \E j \in 1..Len(brands_found) : brands_found[j] = brand
             THEN CollectBrands(matches, i + 1, user_brand_lower, brands_found)
             ELSE CollectBrands(matches, i + 1, user_brand_lower,
                                Append(brands_found, brand))

\* seq[:n]
Take(seq, n) == SubSeq(seq, 1, IF Len(seq) < n THEN Len(seq) ELSE n)

\* _extract_brands_from_response
ExtractBrandsFromResponse(response, user_brand) ==
    IF response = "" THEN <<>>
    ELSE Take(CollectBrands(BrandMatches(response), 1, Lower(user_brand), <<>>), 10)

\* any(w in sentence_lower for w in words)
AnyIn(sentence, words) == \E w \in words : Contains(Lower(sentence), w)
\* any(comp.lower() in sentence_lower for comp in competitors[:3])
AnyCompetitorIn(sentence, competitors) ==
    \E j \in 1..Len(Take(competitors, 3)) : Contains(Lower(sentence), Lower(competitors[j]))

\* the first element of a sequence of sentences, stripped and closed by "."
FirstSentence(seq) == IF Len(seq) = 0 THEN None ELSE Strip(seq[1]) \o "."

\* [x for x in seq if P], for the three loops of _extract_relevant_sentence
RECURSIVE SelectSentences(_, _, _)
SelectSentences(seq, competitors, loop) ==
    IF Len(seq) = 0 THEN <<>>
    ELSE LET x == Head(seq)
             ok == CASE loop = 1 ->
                           AnyIn(x, {"recommend", "suggest", "best", "top"})
                           /\ AnyCompetitorIn(x, competitors)
                     [] loop = 2 -> AnyCompetitorIn(x, competitors)
                     [] loop = 3 -> Len(Strip(x)) > 50
         IN  (IF ok THEN <<x>> ELSE <<>>) \o SelectSentences(Tail(seq), competitors, loop)

\* _extract_relevant_sentence
ExtractRelevantSentence(response, competitors) ==
    IF response = "" THEN None
    ELSE LET sentences == Sentences(response)
             s1 == SelectSentences(sentences, competitors, 1)
             s2 == SelectSentences(sentences, competitors, 2)
             s3 == SelectSentences(sentences, competitors, 3)
         IN  IF Len(s1) > 0 THEN FirstSentence(s1)
             ELSE IF Len(s2) > 0 THEN FirstSentence(s2)
             ELSE FirstSentence(s3)

-----------------------------------------------------------------------------
(* SpeedTestService: the query orchestrator                                *)

\* SpeedTestService.MODELS
MODELS ==
    << [id |-> "gpt-4o", provider |-> "openai", name |-> "GPT-4o"],
       [id |-> "claude-sonnet-4", provider |-> "anthropic", name |-> "Claude Sonnet 4"] >>

\* SpeedTestService.MODEL_ID_MAPPING.get(id, id)
ModelIdMapping(id) ==
    CASE id = "gpt-4o" -> "gpt-4o"
      [] id = "gpt-4o-mini" -> "gpt-4o-mini"
      [] id = "claude-sonnet-4" -> "claude-sonnet-4-20250514"
      [] id = "claude-3.5-sonnet" -> "claude-3-5-sonnet-20241022"
      [] id = "gemini-2.0-flash" -> "gemini-2.0-flash"
      [] id = "gemini-1.5-flash" -> "gemini-1.5-flash"
      [] OTHER -> id

\* ModelResult(...): one cell.  response_time_ms, a wall-clock reading, is left out.
ModelResult(model, prompt, mentioned, position, sentiment, competitors_found, killer_quote, full_response, error) ==
    [model_id |-> model.id, model_name |-> model.name, provider |-> model.provider,
     mentioned |-> mentioned, position |-> position, sentiment |-> sentiment,
     competitors_found |-> competitors_found, killer_quote |-> killer_quote,
     full_response |-> full_response, prompt |-> prompt, error |-> error]

\* ModelResult with the defaults of the class for the fields a caller leaves out
ErrorResult(model, prompt, error) ==
    ModelResult(model, prompt, FALSE, <<>>, "neutral", <<>>, None, "", error)

\* ErrorOfResponse without the `if not response` test: an empty answer is no error
ErrorOfResponseNever(response) == None

\* _query_single_model: `if not response: response = ""; error = "Empty response ..."`
ErrorOfResponse(response) ==
    IF ~Truthy(response) THEN "Empty response from model" ELSE None

\* _query_single_model, "# Analyze the response": the signals of a non-empty text
Analysis(brand, response) ==
    LET mentioned == BrandInResponse(brand, response)
        competitors == ExtractBrandsFromResponse(response, brand)
    IN  [mentioned |-> mentioned,
         position |-> IF mentioned THEN FindPosition(brand, response) ELSE <<>>,
         competitors |-> competitors,
         sentiment |-> IF mentioned THEN AnalyzeSentiment(response, brand) ELSE "neutral",
         killer_quote |-> ExtractRelevantSentence(response, competitors)]

\* the brands and the answer texts the analyzers are applied to on their own
AnalyzerBrands == Brands \cup {"New Balance"}

AnalyzerTexts ==
    AnswerTexts \cup
    { "new-balance shoes are great",
      "NEWBALANCE is popular",
      "I recommend New Balance.",
      "new.balance is top",
      "new_balance rocks",
      "0. Acme\n1. Nike",
      "1( Acme",
      "Try Acme or Nike.",
      "The best options are Acme, Globex, and Initech.",
      "2) New Balance",
      "1. new-balance\n2. Nike",
      "**Big & Tall** beats Puma",
      "Go Pro9 or Abc12 Max",
      "Ab or Supercalifragilisticexpialidociousbrand",
      "Nike, Puma, Asics, Fila, Reebok, Brooks, Hoka, Saucony, Mizuno, Altra, Salomon",
      "Acme Corp and AcmeX win" }

\* the signals of every (brand, answer) pair of the model, computed once
\* (f @@ <<>> is f, stored as an explicit function)
AnalysisTable == [b \in AnalyzerBrands |-> ([t \in AnalyzerTexts |-> Analysis(b, t)] @@ <<>>)] @@ <<>>

\* _query_single_model from "# Analyze the response" on: the cell of a response text
\* ("" after an error) and of the error recorded so far
AnalyzedResult(model, prompt, brand, response, error) ==
    IF response = ""
    THEN ModelResult(model, prompt, FALSE, <<>>, "neutral", <<>>, None, "", error)
    ELSE LET a == IF brand \in AnalyzerBrands /\ response \in AnalyzerTexts
                  THEN AnalysisTable[brand][response]
                  ELSE Analysis(brand, response)
         IN  ModelResult(model, prompt, a.mentioned, a.position, a.sentiment,
                         a.competitors, a.killer_quote, response, error)

\* what a finished task holds for asyncio.gather: the ModelResult it returned, or
\* the exception that left the coroutine
Returned(cell) == [raised |-> FALSE, exc |-> "", cell |-> cell]
Raised(exc) == [raised |-> TRUE, exc |-> exc, cell |-> <<>>]

\* _query_all_parallel: the nested loops `for prompt in prompts: for model in MODELS`
\* create task number i (from 0) for this prompt and this model
PromptOfTask(i) == i \div Len(MODELS)
ModelOfTask(i) == i % Len(MODELS)

NewTask(prompt, model) ==
    [prompt |-> prompt.text, prompt_category |-> prompt.category, model |-> model,
     pc |-> "ready", variant |-> "", calls |-> <<>>, gw_failed |-> FALSE,
     result |-> Returned(ErrorResult(model, prompt.text, Pending))]

CreateTasks(ps) ==
    [k \in 1..(Len(ps) * Len(MODELS)) |->
        NewTask(ps[PromptOfTask(k - 1) + 1], MODELS[ModelOfTask(k - 1) + 1])]

\* _guess_prompt_category
GuessPromptCategory(question) ==
    LET q_lower == Lower(question)
    IN  IF \E w \in {"vs", "compare", "versus", "or", "better"} : Contains(q_lower, w)
        THEN "comparison"
        ELSE IF \E w \in {"is", "good", "review", "worth", "should"} : Contains(q_lower, w)
        THEN "reputation"
        ELSE IF \E w \in {"buy", "where", "purchase", "get", "shop"} : Contains(q_lower, w)
        THEN "purchase"
        ELSE "recommendation"

\* run_test: prompts = [{"text": q, "category": ...} for q in custom_questions[:6]]
CustomPrompts(custom_questions) ==
    LET qs == Take(custom_questions, 6)
    IN  [k \in 1..Len(qs) |-> [text |-> qs[k], category |-> GuessPromptCategory(qs[k])]]

-----------------------------------------------------------------------------
(* SpeedTestService: the score aggregator.  A float ratio is kept exact as  *)
(* [num, den] with den > 0.                                                 *)

\* [r for r in results if r and not r.error]
ValidResults(results) == SelectSeq(results, LAMBDA r : ~Truthy(r.error))

\* len([r for r in results if r.mentioned])
Mentions(results) == Cardinality({i \in 1..Len(results) : results[i].mentioned})

\* MentionRate as a percentage, like the `rate` fields of the other models
MentionRatePercent(results) ==
    IF Len(results) > 0 THEN Ratio(100 * Mentions(results), Len(results)) ELSE Ratio(0, 1)

\* len(results) > 0 ? mentions / len(results) : 0
MentionRate(results) ==
    IF Len(results) > 0 THEN Ratio(Mentions(results), Len(results)) ELSE Ratio(0, 1)

RECURSIVE Sum(_)
Sum(seq) == IF Len(seq) = 0 THEN 0 ELSE Head(seq) + Sum(Tail(seq))

\* [r.position for r in results if r.position]: None and 0 are dropped
Positions(results) ==
    LET kept == SelectSeq(results, LAMBDA r : r.position # <<>> /\ r.position # <<0>>)
    IN  [i \in 1..Len(kept) |-> kept[i].position[1]]

\* position_bonus: avg_position = sum / len, or 10 without positions
PositionBonus(results) ==
    LET positions == Positions(results)
    IN  IF Len(positions) = 0 THEN 0
        ELSE IF Sum(positions) <= 2 * Len(positions) THEN 20
        ELSE IF Sum(positions) <= 4 * Len(positions) THEN 10
        ELSE 0

\* sentiment_bonus: positive_rate > 0.5, > 0.25
SentimentBonus(results) ==
    LET mentioned == {i \in 1..Len(results) : results[i].mentioned}
        positive == {i \in mentioned : results[i].sentiment = "positive"}
    IN  IF 2 * Cardinality(positive) > Cardinality(mentioned) THEN 10
        ELSE IF 4 * Cardinality(positive) > Cardinality(mentioned) THEN 5
        ELSE 0

\* consistency_bonus
ConsistencyBonus(results) ==
    LET mentioning == {results[i].provider : i \in {j \in 1..Len(results) : results[j].mentioned}}
    IN  IF Cardinality(mentioning) >= 2 THEN 10
        ELSE IF Cardinality(mentioning) >= 1 THEN 5
        ELSE 0

\* GetVerdict with upper-inclusive boundaries (<= in place of <)
GetVerdictInclusive(score) ==
    IF score <= 20 THEN [verdict |-> "invisible", grade |-> "F"]
    ELSE IF score <= 40 THEN [verdict |-> "ghost", grade |-> "D"]
    ELSE IF score <= 60 THEN [verdict |-> "contender", grade |-> "C"]
    ELSE IF score <= 80 THEN [verdict |-> "visible", grade |-> "B"]
    ELSE [verdict |-> "authority", grade |-> "A"]

\* _get_verdict (the emoji is left out)
GetVerdict(score) ==
    IF score < 20 THEN [verdict |-> "invisible", grade |-> "F"]
    ELSE IF score < 40 THEN [verdict |-> "ghost", grade |-> "D"]
    ELSE IF score < 60 THEN [verdict |-> "contender", grade |-> "C"]
    ELSE IF score < 80 THEN [verdict |-> "visible", grade |-> "B"]
    ELSE [verdict |-> "authority", grade |-> "A"]

\* _calculate_score: min(100, int(base + position_bonus + sentiment_bonus +
\* consistency_bonus)) with base = mention_rate * 60
CalculateScore(results) ==
    IF Len(results) = 0 THEN 0
    ELSE LET total == (60 * Mentions(results)) \div Len(results)
                      + PositionBonus(results) + SentimentBonus(results)
                      + ConsistencyBonus(results)
         IN  IF total < 100 THEN total ELSE 100

\* str.upper() on one character
UpperChar(c) ==
    IF IsLower(c)
    THEN Char(UpperAlpha, CHOOSE i \in 1..Len(LowerAlpha) : Char(LowerAlpha, i) = c)
    ELSE c

\* str.title(): a letter after a non-letter is upper-cased, any other letter lower-cased
Title(s) ==
    LET letter(i) == IsUpper(Char(s, i)) \/ IsLower(Char(s, i))
        out[i \in 0..Len(s)] ==
            IF i = 0 THEN ""
            ELSE out[i - 1] \o (IF letter(i - 1) THEN LowerChar(Char(s, i))
                                ELSE UpperChar(Char(s, i)))
    IN  out[Len(s)]

\* round(count / total * 100): Python rounds a tie to the even integer
RoundPercent(count, total) ==
    LET q == (100 * count) \div total
        r == (100 * count) % total
    IN  IF 2 * r < total THEN q
        ELSE IF 2 * r > total THEN q + 1
        ELSE IF q % 2 = 0 THEN q ELSE q + 1

\* _extract_competitors, the body of the inner for loop: the key a competitor name
\* is counted under, title-cased, or nothing for a name equal to or containing
\* the brand
CompetitorKey(brand, comp) ==
    IF Contains(Lower(comp), Lower(brand)) THEN <<>> ELSE <<Title(comp)>>

\* the competitor names the analyzers of the model can produce
KnownCompetitors ==
    UNION {{AnalysisTable[b][t].competitors[k] :
               k \in 1..Len(AnalysisTable[b][t].competitors)} :
           b \in Brands, t \in AnswerTexts}

\* the keys of every (brand, competitor name) pair of the model, computed once
CompetitorKeyTable ==
    [b \in Brands |-> ([n \in KnownCompetitors |-> CompetitorKey(b, n)] @@ <<>>)] @@ <<>>

\* the inner for loop over result.competitors_found: the keys counted, in order
RECURSIVE CompetitorKeys(_, _)
CompetitorKeys(comps, brand) ==
    IF Len(comps) = 0 THEN <<>>
    ELSE (IF brand \in Brands /\ Head(comps) \in KnownCompetitors
          THEN CompetitorKeyTable[brand][Head(comps)]
          ELSE CompetitorKey(brand, Head(comps)))
         \o CompetitorKeys(Tail(comps), brand)

\* _extract_competitors, the two for loops: every competitor name of the cells, in
\* order, without the names equal to or containing the brand, title-cased
RECURSIVE CompetitorNames(_, _)
CompetitorNames(results, brand) ==
    IF Len(results) = 0 THEN <<>>
    ELSE CompetitorKeys(Head(results).competitors_found, brand)
         \o CompetitorNames(Tail(results), brand)

\* dict insertion: the names after `names` were added to the keys `kept`
RECURSIVE InsertKeys(_, _)
InsertKeys(names, kept) ==
    IF Len(names) = 0 THEN kept
    ELSE The({ InsertKeys(rest, keys) :
               rest \in {Tail(names)},
               keys \in {IF \E j \in 1..Len(kept) : kept[j] = Head(names) THEN kept
                         ELSE Append(kept, Head(names))} })

\* the keys of competitor_counts in insertion order: the first occurrences
FirstOccurrences(names) == InsertKeys(names, <<>>)

\* competitor_counts[name]
CompetitorCount(names, name) == Cardinality({k \in 1..Len(names) : names[k] = name})

\* sorted(competitor_counts.items(), key=count, reverse=True)[:5], the names
TopCompetitors(names, keys) ==
    Take(SortByKey(keys, [k \in 1..Len(keys) |-> 0 - CompetitorCount(names, keys[k])]), 5)

\* the list comprehension of CompetitorInfo values
CompetitorInfos(names, top, total) ==
    [k \in 1..Len(top) |->
        [name |-> top[k],
         mentions |-> CompetitorCount(names, top[k]),
         rate |-> IF total > 0 THEN RoundPercent(CompetitorCount(names, top[k]), total)
                  ELSE 0]]

\* _extract_competitors.  Each intermediate list is bound as the element of a
\* one-element set, so that it is computed once.
ExtractCompetitors(results, brand) ==
    CHOOSE infos \in
        UNION { UNION { { CompetitorInfos(names, top, Len(results)) :
                            top \in {TopCompetitors(names, keys)} } :
                        keys \in {FirstOccurrences(names)} } :
                names \in {CompetitorNames(results, brand)} } : TRUE

\* min(positions) of the cells with a truthy position, or None
BestPosition(results) ==
    LET positions == Positions(results)
    IN  IF Len(positions) = 0 THEN <<>>
        ELSE <<CHOOSE x \in {positions[k] : k \in 1..Len(positions)} :
                   \A k \in 1..Len(positions) : x <= positions[k]>>

\* _group_by_prompt, the PromptResult of a prompt and of the cells with its text
PromptGroup(prompt, matching_results) ==
    [prompt |-> prompt.text,
     category |-> prompt.category,
     models |-> matching_results,
     mention_rate |-> MentionRate(matching_results),
     best_position |-> BestPosition(matching_results)]

\* _group_by_prompt with the errored cells left out of each group's rate
GroupByPromptValid(ps, results) ==
    [k \in 1..Len(ps) |->
        [PromptGroup(ps[k], SelectSeq(results, LAMBDA r : r.prompt = ps[k].text))
            EXCEPT !.mention_rate = MentionRate(ValidResults(
                SelectSeq(results, LAMBDA r : r.prompt = ps[k].text)))]]

\* _group_by_prompt: one PromptResult per prompt of the run, over the cells with
\* its text
GroupByPrompt(ps, results) ==
    [k \in 1..Len(ps) |->
        PromptGroup(ps[k], SelectSeq(results, LAMBDA r : r.prompt = ps[k].text))]

\* _calculate_model_breakdown: one ModelBreakdown per model_id, in the order of
\* the first cell of each
CalculateModelBreakdown(results) ==
    LET ids == FirstOccurrences([k \in 1..Len(results) |-> results[k].model_id])
    IN  [k \in 1..Len(ids) |->
            LET cells == SelectSeq(results, LAMBDA r : r.model_id = ids[k])
            IN  [model_id |-> ids[k],
                 model_name |-> cells[1].model_name,
                 provider |-> cells[1].provider,
                 mentions |-> Mentions(cells),
                 total |-> Len(cells),
                 rate |-> RoundPercent(Mentions(cells), Len(cells))]]

\* _find_worst_prompt: sorted(prompt_results, key=mention_rate)[0], the first
\* group of minimal rate, or None
FindWorstPrompt(prompt_results) ==
    LET less(a, b) == a.mention_rate.num * b.mention_rate.den
                        < b.mention_rate.num * a.mention_rate.den
        k == CHOOSE i \in 1..Len(prompt_results) :
                 /\ \A j \in 1..Len(prompt_results) :
                        ~less(prompt_results[j], prompt_results[i])
                 /\ \A j \in 1..(i - 1) : less(prompt_results[i], prompt_results[j])
        worst == prompt_results[k]
    IN  IF Len(prompt_results) = 0 THEN <<>>
        ELSE <<[prompt |-> worst.prompt,
                category |-> worst.category,
                mention_rate |-> worst.mention_rate,
                models_mentioning |-> Mentions(worst.models),
                total_models |-> Len(worst.models)]>>

\* run_test from "# Filter out errors" on: the ScoreResponse of the cells
ScoreResponse(results) ==
    LET valid_results == ValidResults(results)
        score == CalculateScore(valid_results)
    IN  [score |-> score,
         verdict |-> GetVerdict(score).verdict,
         grade |-> GetVerdict(score).grade,
         total_tests |-> Len(results),
         total_mentions |-> Mentions(valid_results),
         mention_rate |-> MentionRate(valid_results)]

\* run_test from "# Filter out errors" to its return: the ScoreResponse with the
\* ranking and the breakdowns (you_vs_top, example_response, share_text and the
\* clock readings are left out)
RunTestResponse(brand, ps, results) ==
    The({ [score |-> sr.score,
           verdict |-> sr.verdict,
           grade |-> sr.grade,
           total_tests |-> sr.total_tests,
           total_mentions |-> sr.total_mentions,
           mention_rate |-> sr.mention_rate,
           prompt_results |-> prompt_results,
           model_breakdown |-> CalculateModelBreakdown(results),
           competitors |-> ExtractCompetitors(valid_results, brand),
           worst_prompt |-> FindWorstPrompt(prompt_results)] :
          valid_results \in {ValidResults(results)},
          sr \in {ScoreResponse(results)},
          prompt_results \in {GroupByPrompt(ps, results)} })

-----------------------------------------------------------------------------
(* SpeedTestService.run_test on the asyncio event loop                     *)

QuestionTexts == {"Best running shoes?", "Is Acme good?"}
MaxPrompts == 2

\* the custom_questions a caller passes: 1..MaxPrompts questions, repeats allowed
CustomQuestionLists ==
    UNION { [1..n -> QuestionTexts] : n \in 1..MaxPrompts }

\* the prompts of every custom_questions list of the model, computed once
PromptTable == [qs \in CustomQuestionLists |-> CustomPrompts(qs)] @@ <<>>

\* asyncio.gather(*tasks) without return_exceptions=True
return_exceptions_default == FALSE

\* asyncio.gather(*tasks, return_exceptions=True): the flag
return_exceptions == TRUE

\* GatherReady of a wait for the first task only (asyncio.wait, FIRST_COMPLETED)
GatherReadyFirstCompleted(ts) == \E i \in 1..Len(ts) : ts[i].pc = "done"

\* asyncio.gather: whether the awaiting coroutine can be resumed.  With
\* return_exceptions it waits for every task; without, the first exception of a
\* task is propagated at once.
GatherReady(ts) ==
    \/ \A i \in 1..Len(ts) : ts[i].pc = "done"
    \/ ~return_exceptions /\ \E i \in 1..Len(ts) : ts[i].pc = "done" /\ ts[i].result.raised

\* asyncio.gather: whether it raises into the awaiting coroutine
GatherRaises(ts) ==
    ~return_exceptions /\ \E i \in 1..Len(ts) : ts[i].pc = "done" /\ ts[i].result.raised

\* _query_all_parallel, "# Convert exceptions to error results": result number i
\* (from 0) that is an exception becomes the error cell of these indices
prompt_idx(i) == i \div Len(MODELS)

\* model_idx computed with the prompt's formula
model_idx_div(i) == i \div Len(MODELS)

model_idx(i) == i % Len(MODELS)

ProcessedResults(ts, ps) ==
    [k \in 1..Len(ts) |->
        IF ts[k].result.raised
        THEN ErrorResult(MODELS[model_idx(k - 1) + 1], ps[prompt_idx(k - 1) + 1].text,
                         ts[k].result.exc)
        ELSE ts[k].result.cell]

\* a caller awaits run_test(brand, category, custom_questions=...): the prompts are
\* built, one coroutine per (prompt, model) is created and handed to asyncio.gather
RunTest ==
    /\ r_pc = "idle"
    /\ \E b \in Brands, custom_questions \in CustomQuestionLists :
         /\ brand_name' = b
         /\ prompts' = PromptTable[custom_questions]
         /\ tasks' = CreateTasks(PromptTable[custom_questions])
    /\ r_pc' = "gathering"
    /\ loop_thread' = 0
    /\ all_results' = <<>>
    /\ score_response' = NoResponse
    /\ UNCHANGED <<ai_service_ok, gatewayVars, generateVars, monitorVars, competitorVars, reportVars, comprehensiveVars, promptVars>>

\* the product categories, locations and competitor lists of the callers that
\* let run_test generate the prompts
ProductCategories == {"running shoes", "coffee", "bikes"}
TestLocations == {None, "Paris", "Berlin"}
KnownCompetitorLists == {<<>>, <<"Globex">>, <<"Globex", "Initech">>}

\* prompts[:n]
FirstPrompts(ps, n) == SubSeq(ps, 1, IF Len(ps) < n THEN Len(ps) ELSE n)

\* _generate_prompts
GeneratePrompts(ctx) ==
    FirstPrompts(
        << [text |-> "What are the best " \o ctx.product_category \o "?",
            category |-> "recommendation"],
           [text |-> "Top " \o ctx.product_category \o " brands in 2025",
            category |-> "recommendation"],
           [text |-> "Is " \o ctx.brand_name \o " good for " \o ctx.product_category
                     \o "? What are the alternatives?",
            category |-> "reputation"],
           [text |-> "Where should I buy " \o ctx.product_category
                     \o "? What brands do you recommend?",
            category |-> "purchase"] >>
        \o (IF Len(ctx.known_competitors) > 0
            THEN << [text |-> ctx.brand_name \o " vs " \o ctx.known_competitors[1]
                              \o " - which is better for " \o ctx.product_category \o "?",
                     category |-> "comparison"] >>
            ELSE <<>>)
        \o (IF Truthy(ctx.location)
            THEN << [text |-> "Best " \o ctx.product_category \o " in " \o ctx.location,
                     category |-> "recommendation"] >>
            ELSE <<>>),
        4)

\* a caller awaits run_test(brand, category, location, brand_context=...) without
\* custom questions: the context is built or taken, the prompts are generated,
\* one coroutine per (prompt, model) is created and handed to asyncio.gather
RunTestGenerated ==
    /\ r_pc = "idle"
    /\ \E b \in Brands, category \in ProductCategories, location \in TestLocations,
          known_competitors \in KnownCompetitorLists :
         \E ctx \in {BrandContext(b, category, location, known_competitors)} :
             /\ brand_context' = ctx
             /\ brand_name' = b
             /\ prompts' = GeneratePrompts(ctx)
             /\ tasks' = CreateTasks(GeneratePrompts(ctx))
    /\ r_pc' = "gathering"
    /\ loop_thread' = 0
    /\ all_results' = <<>>
    /\ score_response' = NoResponse
    /\ UNCHANGED <<ai_service_ok, gatewayVars, generateVars, monitorVars, competitorVars,
                   reportVars, comprehensiveVars>>

\* the event loop runs the next ready task (in creation order) up to its upstream
\* request: _query_single_model down to the client call inside generate_with_model.
\* The SDK clients are the synchronous ones and the request is not awaited, so the
\* task keeps the event-loop thread while the request is in flight.
TaskStart ==
    /\ r_pc = "gathering"
    /\ loop_thread = 0
    /\ \E i \in 1..Len(tasks) :
         /\ tasks[i].pc = "ready"
         /\ \A j \in 1..(i - 1) : tasks[j].pc # "ready"
         /\ LET t == tasks[i]
                provider == t.model.provider
                actual_model == ModelIdMapping(t.model.id)
            IN  IF ~ai_service_ok
                THEN \* raise Exception("AI service not available"), caught below
                     /\ tasks' = [tasks EXCEPT ![i].pc = "done",
                                     ![i].result = Returned(AnalyzedResult(
                                         t.model, t.prompt, brand_name, "",
                                         "AI service not available"))]
                     /\ loop_thread' = 0
                ELSE IF provider \notin get_available_providers
                THEN /\ tasks' = [tasks EXCEPT ![i].pc = "done",
                                     ![i].result = Returned(ErrorResult(t.model, t.prompt,
                                         "Provider '" \o provider
                                         \o "' not configured. Add API key to .env file."))]
                     /\ loop_thread' = 0
                ELSE /\ tasks' = [tasks EXCEPT ![i].pc = "in_call",
                                     ![i].variant = "primary",
                                     ![i].calls = <<[provider |-> provider,
                                                     model |-> GenerateWithModelTarget(
                                                         provider, actual_model, "primary")]>>]
                     /\ loop_thread' = i
    /\ UNCHANGED <<ai_service_ok, r_pc, brand_name, prompts, all_results, score_response>>
    /\ UNCHANGED <<gatewayVars, generateVars, monitorVars, competitorVars, reportVars, comprehensiveVars, promptVars>>

\* the upstream request of the running task answers: generate_with_model goes on
\* (a fallback request, or its return), then _query_single_model analyzes the text
\* and returns its ModelResult; an exception raised after the try block leaves the
\* coroutine and is kept by asyncio.gather
UpstreamReply ==
    /\ r_pc = "gathering"
    /\ loop_thread # 0
    /\ tasks[loop_thread].pc = "in_call"
    /\ \E reply \in Replies :
         LET i == loop_thread
             t == tasks[i]
             provider == t.model.provider
             step == GenerateWithModelStep(provider, t.variant, reply)
             text == IF Truthy(step.ret) THEN step.ret ELSE ""
         IN  IF step.more
             THEN /\ tasks' = [tasks EXCEPT ![i].variant = step.variant,
                                  ![i].calls = Append(@, [provider |-> provider,
                                       model |-> GenerateWithModelTarget(
                                           provider, ModelIdMapping(t.model.id),
                                           step.variant)])]
                  /\ loop_thread' = i
             ELSE /\ \E escapes \in (IF text # "" THEN BOOLEAN ELSE {FALSE}) :
                       tasks' = [tasks EXCEPT ![i].pc = "done",
                                    ![i].gw_failed = ~Truthy(step.ret),
                                    ![i].result =
                                        IF escapes THEN Raised("unexpected error")
                                        ELSE Returned(AnalyzedResult(t.model, t.prompt,
                                                 brand_name, text,
                                                 ErrorOfResponse(step.ret)))]
                  /\ loop_thread' = 0
    /\ UNCHANGED <<ai_service_ok, r_pc, brand_name, prompts, all_results, score_response>>
    /\ UNCHANGED <<gatewayVars, generateVars, monitorVars, competitorVars, reportVars, comprehensiveVars, promptVars>>

\* asyncio.gather is over and _query_all_parallel resumes: exceptions are turned
\* into error cells, the list goes back to run_test, which aggregates it and returns
GatherResume ==
    /\ r_pc = "gathering"
    /\ loop_thread = 0
    /\ GatherReady(tasks)
    /\ IF GatherRaises(tasks)
       THEN /\ r_pc' = "raised"
            /\ UNCHANGED <<all_results, score_response>>
       ELSE \E results \in {ProcessedResults(tasks, prompts)} :
                /\ r_pc' = "done"
                /\ all_results' = results
                /\ score_response' = RunTestResponse(brand_name, prompts, results)
    /\ UNCHANGED <<ai_service_ok, brand_name, prompts, tasks, loop_thread>>
    /\ UNCHANGED <<gatewayVars, generateVars, monitorVars, competitorVars, reportVars, comprehensiveVars, promptVars>>

\* the providers SpeedTestService.MODELS names
ModelProviders == {MODELS[k].provider : k \in 1..Len(MODELS)}

\* process start: the gateway singleton is built (or its import failed), no run yet
Init ==
    /\ ai_service_ok \in BOOLEAN
    /\ providers \in SUBSET ModelProviders
    /\ ai_service_ok = FALSE => providers = {}
    /\ provider_order = ParsePriority("anthropic,openai,google")
    /\ genai_new_sdk = TRUE
    /\ has_responses = TRUE
    /\ g_pc = "idle"
    /\ g_opts = [json_mode |-> FALSE, web_search |-> FALSE]
    /\ g_idx = 1
    /\ g_ret = Pending
    /\ g_tried = <<>>
    /\ r_pc = "idle"
    /\ brand_name = ""
    /\ prompts = <<>>
    /\ tasks = <<>>
    /\ loop_thread = 0
    /\ all_results = <<>>
    /\ score_response = NoResponse
    /\ MonitorIdle
    /\ CompetitorIdle
    /\ ReportIdle
    /\ ComprehensiveIdle
    /\ brand_context = NoContext

Next == RunTest \/ TaskStart \/ UpstreamReply \/ GatherResume

Spec == Init /\ [][Next]_vars

\* the event loop runs every ready callback, and every upstream request ends (with
\* an answer or with the SDK's timeout error)
FairSpec ==
    Spec /\ WF_vars(TaskStart) /\ WF_vars(UpstreamReply) /\ WF_vars(GatherResume)

-----------------------------------------------------------------------------
(* One gateway shared by a run_test (its generate_with_model calls and its  *)
(* get_available_providers reads) and by generate calls of other callers,   *)
(* in any interleaving.                                                     *)

SharedPrompts == 1

SharedNext ==
    \/ RunTest /\ Len(prompts') <= SharedPrompts
    \/ TaskStart
    \/ UpstreamReply
    \/ GatherResume
    \/ GenerateCall
    \/ SkipProvider
    \/ TryProvider
    \/ AllFailed

SharedSpec == Init /\ [][SharedNext]_vars

-----------------------------------------------------------------------------
(* The aggregation of run_test as a function of the cell list alone: the    *)
(* cells are any ModelResult values, not only those one run can produce.    *)

MaxCells == 2

\* Optional[int] positions: None, the 0 that _find_position returns for a line
\* numbered "0.", and values on both sides of the bonus thresholds 2 and 4
PositionSamples == {<<>>, <<0>>, <<1>>, <<3>>, <<5>>}

\* ModelResult values: any mix of the fields the aggregation reads
CellSamples ==
    { ModelResult(MODELS[m], "Best running shoes?", mentioned, position, sentiment,
                  <<>>, None, IF error = None THEN "Acme or Nike." ELSE "", error) :
        m \in 1..Len(MODELS), mentioned \in BOOLEAN, position \in PositionSamples,
        sentiment \in {"positive", "neutral", "negative"},
        error \in {None, "Query failed: timeout"} }

CellLists == UNION { [1..n -> CellSamples] : n \in 0..MaxCells }

\* run_test at "# Filter out errors", holding some list of cells
ScoreInit ==
    /\ ai_service_ok = TRUE
    /\ providers = ModelProviders
    /\ provider_order = ParsePriority("anthropic,openai,google")
    /\ genai_new_sdk = TRUE
    /\ has_responses = TRUE
    /\ g_pc = "idle"
    /\ g_opts = [json_mode |-> FALSE, web_search |-> FALSE]
    /\ g_idx = 1
    /\ g_ret = Pending
    /\ g_tried = <<>>
    /\ r_pc = "gathered"
    /\ brand_name = "Acme"
    /\ prompts = <<>>
    /\ tasks = <<>>
    /\ loop_thread = 0
    /\ all_results \in CellLists
    /\ score_response = NoResponse
    /\ MonitorIdle
    /\ CompetitorIdle
    /\ ReportIdle
    /\ ComprehensiveIdle
    /\ brand_context = NoContext

\* run_test from "# Filter out errors" to its return
Summarize ==
    /\ r_pc = "gathered"
    /\ r_pc' = "done"
    /\ score_response' = ScoreResponse(all_results)
    /\ UNCHANGED <<ai_service_ok, brand_name, prompts, tasks, loop_thread, all_results>>
    /\ UNCHANGED <<gatewayVars, generateVars, monitorVars, competitorVars, reportVars, comprehensiveVars, promptVars>>

ScoreSpec == ScoreInit /\ [][Summarize]_vars

-----------------------------------------------------------------------------
(* VisibilityMonitor._analyze_response: the delegated (model-graded)         *)
(* analysis and the rule-based one of visibility_monitor.py                 *)

\* str.find(sub): the first index (from 0), -1 when absent
Find(s, sub) ==
    IF Contains(s, sub)
    THEN (CHOOSE i \in 1..(Len(s) - Len(sub) + 1) :
              /\ SubSeq(s, i, i + Len(sub) - 1) = sub
              /\ \A j \in 1..(i - 1) : SubSeq(s, j, j + Len(sub) - 1) # sub) - 1
    ELSE -1

\* str.split(): the whitespace-separated words, none empty
Words(s) ==
    SelectSeq(ReSplit(s, {" ", "\t", "\n", "\r", "\f"}), LAMBDA w : w # "")

\* _normalize_for_matching
NormalizeForMatching(text) ==
    Join(Words(Replace(Replace(Replace(Lower(text), "-", " "), "_", " "), ".", " ")), " ")

\* _brand_in_text
BrandInText(brand, text) ==
    LET brand_normalized == NormalizeForMatching(brand)
        text_normalized == NormalizeForMatching(text)
    IN  \/ Contains(text_normalized, brand_normalized)
        \/ Contains(Lower(text), Lower(brand))
        \/ Contains(Replace(text_normalized, " ", ""), Replace(brand_normalized, " ", ""))

\* _analyze_response, "Find position": the rank of the brand among the brand and
\* the competitors found in the normalized answer, by first offset
MonitorPosition(brand, competitors, response) ==
    LET all_brands == <<brand>> \o competitors
        response_normalized == NormalizeForMatching(response)
        idx(b) == Find(response_normalized, NormalizeForMatching(b))
        found == SelectSeq(all_brands, LAMBDA b : idx(b) # -1)
        mentions == SortByKey(found, [k \in 1..Len(found) |-> idx(found[k])])
        ours == {k \in 1..Len(mentions) :
                    NormalizeForMatching(mentions[k]) = NormalizeForMatching(brand)}
    IN  IF ours = {} THEN <<>>
        ELSE <<CHOOSE k \in ours : \A m \in ours : k <= m>>

monitor_positive_words ==
    {"best", "excellent", "great", "top", "leading", "recommended", "outstanding",
     "innovative", "quality", "trusted", "reliable", "popular", "favorite",
     "preferred", "award", "premium"}

monitor_negative_words ==
    {"bad", "poor", "avoid", "problem", "issue", "complaint", "expensive",
     "overpriced", "disappointing", "lacks", "limited", "controversy", "criticism",
     "negative"}

\* VisibilityMonitor._analyze_sentiment
MonitorAnalyzeSentiment(response, brand) ==
    LET brand_sentences == Having(Split(response, "."), Lower(brand))
        text == Lower(Join(brand_sentences, " "))
        positive_count == Cardinality({w \in monitor_positive_words : Contains(text, w)})
        negative_count == Cardinality({w \in monitor_negative_words : Contains(text, w)})
    IN  IF Len(brand_sentences) = 0 THEN "neutral"
        ELSE IF positive_count > negative_count THEN "positive"
        ELSE IF negative_count > positive_count THEN "negative"
        ELSE "neutral"

\* the four signals of a PromptResult (citations and timestamp are left out)
Signals(mentioned, position, sentiment, competitors) ==
    [brand_mentioned |-> mentioned, position |-> position, sentiment |-> sentiment,
     competitors_mentioned |-> competitors]

\* _analyze_response, "2. Fallback to Regex/Fuzzy Matching"
RuleBased(brand, competitors, response) ==
    LET brand_mentioned == BrandInText(brand, response)
    IN  Signals(brand_mentioned,
                IF brand_mentioned THEN MonitorPosition(brand, competitors, response)
                ELSE <<>>,
                MonitorAnalyzeSentiment(response, brand),
                SelectSeq(competitors, LAMBDA c : BrandInText(c, response)))

\* the judgment texts an upstream model gives to analyze_search_result
JudgeYes ==
    "{\"mentioned\": true, \"sentiment\": \"positive\", \"position\": 1, \"competitors_found\": [\"Nike\"]}"
JudgeNo ==
    "{\"mentioned\": false, \"sentiment\": \"neutral\", \"position\": null, \"competitors_found\": []}"
JudgeTexts ==
    { JudgeYes, JudgeNo, " " \o JudgeYes \o "\n", "Acme is mentioned first.", "[]" }

\* what generate hands to analyze_search_result: None (no provider, or all failed)
\* or the non-empty text of the first provider that answered
JudgeReplies == {None} \cup JudgeTexts

\* json.loads on the documents of JudgeTexts: a dict, a list, or ValueError.  None
\* of the texts starts with a Markdown code fence, so the two re.sub calls that
\* strip one leave them as they are.
JsonLoads(text) ==
    CASE text = JudgeYes ->
           [kind |-> "dict", value |-> Signals(TRUE, <<1>>, "positive", <<"Nike">>)]
      [] text = JudgeNo ->
           [kind |-> "dict", value |-> Signals(FALSE, <<>>, "neutral", <<>>)]
      [] text = "[]" ->
           [kind |-> "list", value |-> Signals(FALSE, <<>>, "neutral", <<>>)]
      [] OTHER ->
           [kind |-> "error", value |-> Signals(FALSE, <<>>, "neutral", <<>>)]

\* analyze_search_result from `if not response:` on: the value it returns
AnalyzeSearchResult(judged) ==
    LET failed == [kind |-> "dict", value |-> Signals(FALSE, <<>>, "neutral", <<>>)]
        doc == JsonLoads(Strip(judged))
    IN  IF ~Truthy(judged) THEN failed          \* "context": "analysis_failed"
        ELSE IF doc.kind = "error" THEN failed  \* "context": "parse_error"
        ELSE doc

\* the answers under analysis, and the competitor lists of the caller
MonitorAnswers == AnswerTexts \cup {"ACME-Corp is great. Puma is bad.", "Nothing to see here."}
CompetitorLists == {<<>>, <<"Nike">>, <<"Nike", "Puma">>}

\* RuleBased and AnalyzeSearchResult on the inputs above, computed once
RuleBasedTable ==
    [b \in Brands |-> ([c \in CompetitorLists |-> ([t \in MonitorAnswers |->
        RuleBased(b, c, t)] @@ <<>>)] @@ <<>>)] @@ <<>>
JudgeTable == [j \in JudgeReplies |-> AnalyzeSearchResult(j)] @@ <<>>

\* _analyze_response.  The judgment call goes through MultiProviderAI.generate, whose
\* only effect is the value it returns: `judged`.  A value that is not a dict makes
\* analysis.get raise, and the except clause falls through to the rule-based part.
AnalyzeResponse ==
    /\ \E brand \in Brands, competitors \in CompetitorLists, response \in MonitorAnswers,
          judged \in JudgeReplies :
         /\ ~ai_service_ok => judged = None
         /\ m_input' = [brand |-> brand, competitors |-> competitors,
                        response |-> response, judged |-> judged]
         /\ m_result' = IF ai_service_ok /\ JudgeTable[judged].kind = "dict"
                        THEN JudgeTable[judged].value
                        ELSE RuleBasedTable[brand][competitors][response]
    /\ m_pc' = "done"
    /\ UNCHANGED <<gatewayVars, generateVars, runVars, competitorVars, reportVars, comprehensiveVars, promptVars>>

\* a process with a VisibilityMonitor: the gateway was imported or not, no call yet
MonitorInit ==
    /\ ai_service_ok \in BOOLEAN
    /\ providers \in SUBSET ModelProviders
    /\ ai_service_ok = FALSE => providers = {}
    /\ provider_order = ParsePriority("anthropic,openai,google")
    /\ genai_new_sdk = TRUE
    /\ has_responses = TRUE
    /\ g_pc = "idle"
    /\ g_opts = [json_mode |-> FALSE, web_search |-> FALSE]
    /\ g_idx = 1
    /\ g_ret = Pending
    /\ g_tried = <<>>
    /\ r_pc = "idle"
    /\ brand_name = ""
    /\ prompts = <<>>
    /\ tasks = <<>>
    /\ loop_thread = 0
    /\ all_results = <<>>
    /\ score_response = NoResponse
    /\ MonitorIdle
    /\ CompetitorIdle
    /\ ReportIdle
    /\ ComprehensiveIdle
    /\ brand_context = NoContext

MonitorSpec == MonitorInit /\ [][AnalyzeResponse]_vars

-----------------------------------------------------------------------------
(* _get_verdict as a function of the score alone, over the whole range of   *)
(* ScoreResponse.score (Field(ge=0, le=100)).                               *)

MaxScore == 100

\* _calculate_score at the call of _get_verdict, holding some score
VerdictInit ==
    /\ ai_service_ok = TRUE
    /\ providers = ModelProviders
    /\ provider_order = ParsePriority("anthropic,openai,google")
    /\ genai_new_sdk = TRUE
    /\ has_responses = TRUE
    /\ g_pc = "idle"
    /\ g_opts = [json_mode |-> FALSE, web_search |-> FALSE]
    /\ g_idx = 1
    /\ g_ret = Pending
    /\ g_tried = <<>>
    /\ r_pc = "scored"
    /\ brand_name = "Acme"
    /\ prompts = <<>>
    /\ tasks = <<>>
    /\ loop_thread = 0
    /\ all_results = <<>>
    /\ \E score \in 0..MaxScore : score_response = [NoResponse EXCEPT !.score = score]
    /\ MonitorIdle
    /\ CompetitorIdle
    /\ ReportIdle
    /\ ComprehensiveIdle
    /\ brand_context = NoContext

\* verdict, verdict_emoji, grade = self._get_verdict(score)
Verdict ==
    /\ r_pc = "scored"
    /\ r_pc' = "done"
    /\ score_response' = [score_response EXCEPT
                             !.verdict = GetVerdict(score_response.score).verdict,
                             !.grade = GetVerdict(score_response.score).grade]
    /\ UNCHANGED <<ai_service_ok, brand_name, prompts, tasks, loop_thread, all_results>>
    /\ UNCHANGED <<gatewayVars, generateVars, monitorVars, competitorVars, reportVars, comprehensiveVars, promptVars>>

VerdictSpec == VerdictInit /\ [][Verdict]_vars

-----------------------------------------------------------------------------
(* The response analysis of _query_single_model as a function of the brand *)
(* and the answer text alone.                                              *)

AnalyzerInit ==
    /\ ai_service_ok = TRUE
    /\ providers = ModelProviders
    /\ provider_order = ParsePriority("anthropic,openai,google")
    /\ genai_new_sdk = TRUE
    /\ has_responses = TRUE
    /\ g_pc = "idle"
    /\ g_opts = [json_mode |-> FALSE, web_search |-> FALSE]
    /\ g_idx = 1
    /\ g_ret = Pending
    /\ g_tried = <<>>
    /\ r_pc = "answered"
    /\ brand_name \in AnalyzerBrands
    /\ prompts = <<>>
    /\ tasks = <<>>
    /\ loop_thread = 0
    /\ all_results = <<>>
    /\ score_response = NoResponse
    /\ MonitorIdle
    /\ CompetitorIdle
    /\ ReportIdle
    /\ ComprehensiveIdle
    /\ brand_context = NoContext

\* _query_single_model from "# Analyze the response" to its return, for a model,
\* a prompt and a non-empty answer text
AnalyzeCell ==
    /\ r_pc = "answered"
    /\ \E m \in 1..Len(MODELS), q \in QuestionTexts, response \in AnalyzerTexts :
           all_results' = <<AnalyzedResult(MODELS[m], q, brand_name, response, None)>>
    /\ r_pc' = "analyzed"
    /\ UNCHANGED <<ai_service_ok, brand_name, prompts, tasks, loop_thread, score_response>>
    /\ UNCHANGED <<gatewayVars, generateVars, monitorVars, competitorVars, reportVars, comprehensiveVars, promptVars>>

AnalyzerSpec == AnalyzerInit /\ [][AnalyzeCell]_vars

-----------------------------------------------------------------------------
(* run_test of one question, from the answers of the models to its return:  *)
(* each answer goes through the analyzers, and the cells through the        *)
(* aggregation.                                                             *)

\* what generate_with_model hands to _query_single_model in these runs
RateReplies ==
    { None,
      "Try Acme or Nike.",
      "The best options are Acme, Globex, and Initech.",
      "**Nike** and **NIKE** are great",
      "1. Nike\n2. Puma" }

\* the signals of every (brand, answer) pair of these runs, computed once
RateTable ==
    [b \in AnalyzerBrands |->
        ([t \in {r \in RateReplies : Truthy(r)} |-> Analysis(b, t)] @@ <<>>)] @@ <<>>

\* the ModelResult _query_single_model returns for what generate_with_model gave
CellOfReply(model, prompt, brand, reply) ==
    IF ~Truthy(reply)
    THEN ModelResult(model, prompt, FALSE, <<>>, "neutral", <<>>, None, "",
                     ErrorOfResponse(reply))
    ELSE ModelResult(model, prompt, RateTable[brand][reply].mentioned,
                     RateTable[brand][reply].position, RateTable[brand][reply].sentiment,
                     RateTable[brand][reply].competitors,
                     RateTable[brand][reply].killer_quote, reply, ErrorOfResponse(reply))

\* every model of the catalog has answered the question and its cell is built
AnalyzeCells ==
    /\ r_pc = "answered"
    /\ \E q \in QuestionTexts, replies \in [1..Len(MODELS) -> RateReplies] :
         /\ prompts' = PromptTable[<<q>>]
         /\ all_results' = [m \in 1..Len(MODELS) |->
                               CellOfReply(MODELS[m], q, brand_name, replies[m])]
    /\ r_pc' = "analyzed"
    /\ UNCHANGED <<ai_service_ok, brand_name, tasks, loop_thread, score_response>>
    /\ UNCHANGED <<gatewayVars, generateVars, monitorVars, competitorVars, reportVars, comprehensiveVars, promptVars>>

\* run_test from "# Filter out errors" to its return
SummarizeCells ==
    /\ r_pc = "analyzed"
    /\ score_response' = RunTestResponse(brand_name, prompts, all_results)
    /\ r_pc' = "done"
    /\ UNCHANGED <<ai_service_ok, brand_name, prompts, tasks, loop_thread, all_results>>
    /\ UNCHANGED <<gatewayVars, generateVars, monitorVars, competitorVars, reportVars, comprehensiveVars, promptVars>>

RateSpec == AnalyzerInit /\ [][AnalyzeCells \/ SummarizeCells]_vars

-----------------------------------------------------------------------------
(* json.loads on the texts of the model: objects, arrays, strings without   *)
(* escapes, and null.  A JSON value is a tagged record; a dict keeps its    *)
(* keys in the order of the text.                                           *)

JNull == [t |-> "null"]
JStr(s) == [t |-> "str", s |-> s]
JArr(items) == [t |-> "arr", items |-> items]
JObj(keys, vals) == [t |-> "obj", keys |-> keys, vals |-> vals]

\* the outcome of decoding one value: the value and the text after it
JOk(v, rest) == [ok |-> TRUE, v |-> v, rest |-> rest]
JFail == [ok |-> FALSE, v |-> JNull, rest |-> ""]

JsonWs == {" ", "\t", "\n", "\r"}
\* s without its leading whitespace
SkipWs(s) ==
    IF \A i \in 1..Len(s) : Char(s, i) \in JsonWs THEN ""
    ELSE SubSeq(s, CHOOSE i \in 1..Len(s) :
                       /\ Char(s, i) \notin JsonWs
                       /\ \A j \in 1..(i - 1) : Char(s, j) \in JsonWs,
                Len(s))

\* a string, read from the character after its opening quote up to the next quote
JsonString(s) ==
    IF \A i \in 1..Len(s) : Char(s, i) # "\"" THEN JFail
    ELSE The({ JOk(JStr(Slice(s, 1, q - 1)), Slice(s, q + 1, Len(s))) :
               q \in {CHOOSE i \in 1..Len(s) :
                          /\ Char(s, i) = "\""
                          /\ \A j \in 1..(i - 1) : Char(s, j) # "\""} })

RECURSIVE JsonValue(_)
RECURSIVE JsonElements(_, _)
RECURSIVE JsonMembers(_, _, _)

\* an array after its element v: a comma and the next element, or the bracket
AfterElement(v, items) ==
    IF ~v.ok THEN JFail
    ELSE The({ IF StartsWith(r, ",") THEN JsonElements(Tail(r), Append(items, v.v))
               ELSE IF StartsWith(r, "]") THEN JOk(JArr(Append(items, v.v)), Tail(r))
               ELSE JFail : r \in {SkipWs(v.rest)} })

JsonElements(s, items) == The({ AfterElement(v, items) : v \in {JsonValue(s)} })

\* an object after the member k: v
AfterMember(k, v, keys, vals) ==
    IF ~v.ok THEN JFail
    ELSE The({ IF StartsWith(r, ",")
               THEN JsonMembers(Tail(r), Append(keys, k), Append(vals, v.v))
               ELSE IF StartsWith(r, "}")
               THEN JOk(JObj(Append(keys, k), Append(vals, v.v)), Tail(r))
               ELSE JFail : r \in {SkipWs(v.rest)} })

\* an object after the key k: a colon and the value
AfterKey(k, keys, vals) ==
    IF ~k.ok THEN JFail
    ELSE The({ IF StartsWith(r, ":")
               THEN The({ AfterMember(k.v.s, v, keys, vals) : v \in {JsonValue(Tail(r))} })
               ELSE JFail : r \in {SkipWs(k.rest)} })

JsonMembers(s, keys, vals) ==
    The({ IF StartsWith(r, "\"")
          THEN The({ AfterKey(k, keys, vals) : k \in {JsonString(Tail(r))} })
          ELSE JFail : r \in {SkipWs(s)} })

\* one value at the start of s (s does not start with whitespace)
JsonValueAt(s) ==
    IF s = "" THEN JFail
    ELSE IF Head(s) = "\"" THEN JsonString(Tail(s))
    ELSE IF Head(s) = "["
    THEN The({ IF StartsWith(r, "]") THEN JOk(JArr(<<>>), Tail(r))
               ELSE JsonElements(r, <<>>) : r \in {SkipWs(Tail(s))} })
    ELSE IF Head(s) = "{"
    THEN The({ IF StartsWith(r, "}") THEN JOk(JObj(<<>>, <<>>), Tail(r))
               ELSE JsonMembers(r, <<>>, <<>>) : r \in {SkipWs(Tail(s))} })
    ELSE IF StartsWith(s, "null") THEN JOk(JNull, Slice(s, 5, Len(s)))
    ELSE JFail

JsonValue(s0) == The({ JsonValueAt(s) : s \in {SkipWs(s0)} })

\* json.loads: ok = FALSE stands for json.JSONDecodeError (no value, or text
\* after the value)
JsonDecode(s) ==
    The({ IF v.ok /\ SkipWs(v.rest) = "" THEN [ok |-> TRUE, data |-> v.v]
          ELSE [ok |-> FALSE, data |-> JNull] : v \in {JsonValue(s)} })

\* dict.get(key, default): the last member of that key wins
HasKey(obj, key) == \E i \in 1..Len(obj.keys) : obj.keys[i] = key
Get(obj, key, default) ==
    IF HasKey(obj, key)
    THEN obj.vals[CHOOSE i \in 1..Len(obj.keys) :
                      /\ obj.keys[i] = key
                      /\ \A j \in (i + 1)..Len(obj.keys) : obj.keys[j] # key]
    ELSE default

-----------------------------------------------------------------------------
(* CompetitorAnalyzer._parse_competitor_response (competitor_analyzer.py)   *)

size_descriptions == {"micro", "small", "medium", "large"}

\* an Optional[str] field fed with a JSON string or null
OptionalStr(v) == IF v.t = "str" THEN v.s ELSE None

\* one iteration of `for comp in data.get(...)[:10]` raises: comp is not a dict,
\* size is not a string (.lower()), or a str field of the pydantic models is fed
\* with something that is not a string
SuggestionRaises(comp, default_size, default_reason) ==
    \/ comp.t # "obj"
    \/ Get(comp, "size", JStr(default_size)).t # "str"
    \/ Get(comp, "estimated_employees", JNull).t \notin {"str", "null"}
    \/ Get(comp, "estimated_revenue", JNull).t \notin {"str", "null"}
    \/ Get(comp, "name", JStr("Unknown")).t # "str"
    \/ Get(comp, "website", JNull).t \notin {"str", "null"}
    \/ Get(comp, "reason", JStr(default_reason)).t # "str"

\* size_cat of one iteration
SizeCat(comp, default_size) ==
    IF Lower(Get(comp, "size", JStr(default_size)).s) \in size_descriptions
    THEN Lower(Get(comp, "size", JStr(default_size)).s)
    ELSE default_size

\* the CompetitorSuggestion one iteration appends.  The description of its
\* CompanySize is a function of the category and is left out.
Suggestion(comp, scope, default_size, default_reason) ==
    [name |-> Get(comp, "name", JStr("Unknown")).s,
     website |-> OptionalStr(Get(comp, "website", JNull)),
     scope |-> scope,
     reason |-> Get(comp, "reason", JStr(default_reason)).s,
     company_size |->
         [category |-> SizeCat(comp, default_size),
          estimated_employees |-> OptionalStr(Get(comp, "estimated_employees", JNull)),
          estimated_revenue |-> OptionalStr(Get(comp, "estimated_revenue", JNull))]]

\* one of the two loops: the list it builds, or raised = TRUE
Suggestions(items, scope, default_size, default_reason) ==
    IF \E k \in 1..Len(items) : SuggestionRaises(items[k], default_size, default_reason)
    THEN [raised |-> TRUE, list |-> <<>>]
    ELSE [raised |-> FALSE,
          list |-> [k \in 1..Len(items) |->
                       Suggestion(items[k], scope, default_size, default_reason)]]

\* data.get(key, [])[:10] as a list to iterate: raised = TRUE when the slice or
\* the iteration raises (null, a dict); a string is sliced and iterated by
\* character, which raises at the first character (a str has no .get)
FirstTen(v) ==
    IF v.t = "arr" THEN [raised |-> FALSE, items |-> Take(v.items, 10)]
    ELSE IF v.t = "str" /\ v.s = "" THEN [raised |-> FALSE, items |-> <<>>]
    ELSE [raised |-> TRUE, items |-> <<>>]

\* size_counts after both loops
SizeCounts(entries) ==
    [k \in 1..4 |->
        LET cat == <<"micro", "small", "medium", "large">>[k]
        IN  <<cat, Cardinality({i \in 1..Len(entries) : entries[i].company_size.category = cat})>>]

\* the try block of _parse_competitor_response on the decoded data: the lists it
\* built, or raised = TRUE for an exception other than json.JSONDecodeError
BuildLists(data) ==
    IF data.t # "obj" THEN [raised |-> TRUE]
    ELSE The({ IF l.raised \/ g.raised THEN [raised |-> TRUE]
               ELSE The({ IF ls.raised \/ gs.raised THEN [raised |-> TRUE]
                          ELSE [raised |-> FALSE, local_competitors |-> ls.list,
                                global_competitors |-> gs.list,
                                size_breakdown |-> SizeCounts(ls.list \o gs.list)] :
                          ls \in {Suggestions(l.items, "local", "medium",
                                              "Identified as local competitor")},
                          gs \in {Suggestions(g.items, "global", "large",
                                              "Identified as global competitor")} }) :
               l \in {FirstTen(Get(data, "local_competitors", JArr(<<>>)))},
               g \in {FirstTen(Get(data, "global_competitors", JArr(<<>>)))} })

\* the texts a self.ai call answers with in the model
CompetitorTexts ==
    { "{\"local_competitors\": [{\"name\": \"Local 1\", \"website\": \"https://local1.com\", \"reason\": \"Local competitor\"}], \"global_competitors\": [{\"name\": \"Global 1\", \"size\": \"Small\"}]}",
      "{\"local_competitors\": [{\"name\": \"\", \"reason\": \"Empty name\"}, {\"website\": \"https://example2.com\"}, {\"name\": \"Valid Name\"}], \"global_competitors\": []}",
      "{\"local_competitors\": [], \"global_competitors\": [{\"name\": \"Competitor via Gemini\", \"size\": \"huge\"}]}",
      "{\"global_competitors\": [{\"name\": \"A\"}, {\"name\": \"B\"}, {\"name\": \"C\"}, {\"name\": \"D\"}, {\"name\": \"E\"}, {\"name\": \"F\"}, {\"name\": \"G\"}, {\"name\": \"H\"}, {\"name\": \"I\"}, {\"name\": \"J\"}, {\"name\": \"K\"}]}",
      " {} \n",
      "This is not valid JSON",
      "{\"local_competitors\": []} Hope this helps!",
      "[]",
      "{\"local_competitors\": null}",
      "{\"local_competitors\": [{\"name\": null}]}",
      "{\"global_competitors\": [{\"name\": \"X\", \"size\": null}]}" }

\* json.loads(response.strip()) and the lists built from it, once per text.  No
\* text of the model starts with a Markdown code fence, so `cleaned` is
\* response.strip().
ParsedTable ==
    [t \in CompetitorTexts |->
        The({ IF ~loaded.ok THEN [decoded |-> FALSE, raised |-> FALSE]
              ELSE The({ IF built.raised THEN [decoded |-> TRUE, raised |-> TRUE]
                         ELSE [decoded |-> TRUE, raised |-> FALSE, lists |-> built] :
                         built \in {BuildLists(loaded.data)} }) :
              loaded \in {JsonDecode(Strip(t))} })] @@ <<>>

\* _parse_competitor_response: the CompetitorDiscoveryResult it returns, or
\* raised = TRUE when an exception leaves it
ParseCompetitorResponse(response, brand, category, location) ==
    LET parsed == ParsedTable[response]
    IN  IF ~parsed.decoded
        THEN \* except json.JSONDecodeError
             [raised |-> FALSE, result |-> CompetitorDiscoveryResult(brand, category, location)]
        ELSE IF parsed.raised
        THEN [raised |-> TRUE, result |-> CompetitorDiscoveryResult(brand, category, location)]
        ELSE [raised |-> FALSE,
              result |-> [brand |-> brand, category |-> category, location |-> location,
                          local_competitors |-> parsed.lists.local_competitors,
                          global_competitors |-> parsed.lists.global_competitors,
                          total_found |-> Len(parsed.lists.local_competitors)
                                          + Len(parsed.lists.global_competitors),
                          size_breakdown |-> parsed.lists.size_breakdown]]

-----------------------------------------------------------------------------
(* CompetitorAnalyzer.discover_top_competitors.  self.ai is the gateway, or  *)
(* a stand-in for it: a call returns a text, returns nothing, or raises.     *)

Categories == {"Fashion"}
Locations == {None, "France"}

\* what one self.ai.generate_with_model or self.ai.generate call can produce
AiReplies == {RAISE, None, ""} \cup CompetitorTexts

Call(step, reply) == [step |-> step, reply |-> reply]

\* `response = await ...` in a try whose except clause sets response = None
Received(reply) == IF reply = RAISE THEN None ELSE reply

\* a caller starts discover_top_competitors(brand, category, location)
DiscoverCall ==
    /\ c_pc = "idle"
    /\ \E b \in Brands, cat \in Categories, loc \in Locations :
         /\ c_request' = [brand |-> b, category |-> cat, location |-> loc]
         /\ IF ~is_available
            THEN /\ c_pc' = "returned"
                 /\ c_result' = CompetitorDiscoveryResult(b, cat, loc)
            ELSE /\ c_pc' = "claude"
                 /\ UNCHANGED c_result
    /\ UNCHANGED <<c_response, c_calls>>
    /\ UNCHANGED <<gatewayVars, generateVars, runVars, monitorVars, reportVars, comprehensiveVars, promptVars>>

\* 1. `if "anthropic" in available_providers:` generate_with_model(provider="anthropic")
TryClaude ==
    /\ c_pc = "claude"
    /\ IF "anthropic" \in get_available_providers
       THEN \E reply \in AiReplies :
                /\ c_calls' = Append(c_calls, Call("anthropic", reply))
                /\ c_response' = Received(reply)
       ELSE UNCHANGED <<c_calls, c_response>>
    /\ c_pc' = "gemini"
    /\ UNCHANGED <<c_request, c_result>>
    /\ UNCHANGED <<gatewayVars, generateVars, runVars, monitorVars, reportVars, comprehensiveVars, promptVars>>

\* TryGemini without `not response`: Gemini is asked whatever Claude produced
TryGeminiAlways ==
    /\ c_pc = "gemini"
    /\ IF "google" \in get_available_providers
       THEN \E reply \in AiReplies :
                /\ c_calls' = Append(c_calls, Call("google", reply))
                /\ c_response' = Received(reply)
       ELSE UNCHANGED <<c_calls, c_response>>
    /\ c_pc' = "default"
    /\ UNCHANGED <<c_request, c_result>>
    /\ UNCHANGED <<gatewayVars, generateVars, runVars, monitorVars, reportVars, comprehensiveVars, promptVars>>

\* 2. `if not response and "google" in available_providers:`
\* generate_with_model(provider="google")
TryGemini ==
    /\ c_pc = "gemini"
    /\ IF ~Truthy(c_response) /\ "google" \in get_available_providers
       THEN \E reply \in AiReplies :
                /\ c_calls' = Append(c_calls, Call("google", reply))
                /\ c_response' = Received(reply)
       ELSE UNCHANGED <<c_calls, c_response>>
    /\ c_pc' = "default"
    /\ UNCHANGED <<c_request, c_result>>
    /\ UNCHANGED <<gatewayVars, generateVars, runVars, monitorVars, reportVars, comprehensiveVars, promptVars>>

\* FinishDiscovery without the outer `except Exception`: what raises inside the
\* try block leaves discover_top_competitors
FinishDiscoveryUncaught(response, request) ==
    LET empty == CompetitorDiscoveryResult(request.brand, request.category, request.location)
        parsed == ParseCompetitorResponse(response, request.brand, request.category,
                                          request.location)
    IN  IF response = RAISE THEN [pc |-> "raised", response |-> None, result |-> empty]
        ELSE IF ~Truthy(response) THEN [pc |-> "returned", response |-> response, result |-> empty]
        ELSE IF parsed.raised THEN [pc |-> "raised", response |-> response, result |-> empty]
        ELSE [pc |-> "returned", response |-> response, result |-> parsed.result]

\* the end of the try block, `response` being what the last await produced
\* (RAISE when self.ai.generate raised): `if not response: return empty`, the
\* parse, and the outer `except Exception: return empty`
FinishDiscovery(response, request) ==
    LET empty == CompetitorDiscoveryResult(request.brand, request.category, request.location)
        parsed == ParseCompetitorResponse(response, request.brand, request.category,
                                          request.location)
    IN  IF response = RAISE THEN [pc |-> "returned", response |-> None, result |-> empty]
        ELSE IF ~Truthy(response) THEN [pc |-> "returned", response |-> response, result |-> empty]
        ELSE IF parsed.raised THEN [pc |-> "returned", response |-> response, result |-> empty]
        ELSE [pc |-> "returned", response |-> response, result |-> parsed.result]

\* 3. `if not response:` self.ai.generate(...), then the rest of the function
UseDefault ==
    /\ c_pc = "default"
    /\ \E reply \in (IF Truthy(c_response) THEN {c_response} ELSE AiReplies) :
         /\ c_calls' = IF Truthy(c_response) THEN c_calls
                       ELSE Append(c_calls, Call("generate", reply))
         /\ c_pc' = FinishDiscovery(reply, c_request).pc
         /\ c_response' = FinishDiscovery(reply, c_request).response
         /\ c_result' = FinishDiscovery(reply, c_request).result
    /\ UNCHANGED c_request
    /\ UNCHANGED <<gatewayVars, generateVars, runVars, monitorVars, reportVars, comprehensiveVars, promptVars>>

\* the gateway as __init__ left it, and no call made yet
CompetitorInit ==
    /\ providers \in SUBSET AllProviders
    /\ provider_order = ParsePriority("anthropic,openai,google")
    /\ genai_new_sdk = TRUE
    /\ has_responses = TRUE
    /\ g_pc = "idle"
    /\ g_opts = [json_mode |-> FALSE, web_search |-> FALSE]
    /\ g_idx = 1
    /\ g_ret = Pending
    /\ g_tried = <<>>
    /\ RunIdle
    /\ MonitorIdle
    /\ CompetitorIdle
    /\ ReportIdle
    /\ ComprehensiveIdle
    /\ brand_context = NoContext

CompetitorNext == DiscoverCall \/ TryClaude \/ TryGemini \/ UseDefault

CompetitorSpec == CompetitorInit /\ [][CompetitorNext]_vars

-----------------------------------------------------------------------------
(* CompetitorAnalyzer.generate_comparison_report (competitor_analyzer.py)   *)

\* the most competitors of one report in the model
MaxCompetitors == 3

\* the overall_score values of the model
ReportScores == {0, 60, 70, 80, 90}

CompScoreLists == UNION {[1..n -> ReportScores] : n \in 0..MaxCompetitors}

\* sorted(all_scores, reverse=False): the smallest first
SortedAscending(all_scores) == SortByKey(all_scores, all_scores)

\* sorted(all_scores, reverse=True): the greatest first
SortedDescending(all_scores) ==
    SortByKey(all_scores, [k \in 1..Len(all_scores) |-> 0 - all_scores[k]])

\* list.index(x): the first index of x, from 0
Index(seq, x) ==
    (CHOOSE i \in 1..Len(seq) : seq[i] = x /\ \A j \in 1..(i - 1) : seq[j] # x) - 1

\* one entry of comparison["competitors"]: the score, the difference and the status
CompetitorEntry(user_score, comp_score) ==
    [score |-> comp_score,
     difference |-> user_score - comp_score,
     status |-> IF user_score - comp_score > 0 THEN "ahead"
                ELSE IF user_score - comp_score < 0 THEN "behind" ELSE "tied"]

\* generate_comparison_report on the scores: the ranking, total_analyzed, the
\* competitor entries and which of the three rank insights was appended
GenerateComparisonReport(user_score, comp_scores) ==
    The({ [user_score |-> user_score,
           competitors |-> [k \in 1..Len(comp_scores) |->
                               CompetitorEntry(user_score, comp_scores[k])],
           ranking |-> ranking,
           total_analyzed |-> Len(all_scores),
           rank_insight |-> IF ranking = 1 THEN "first"
                            ELSE IF ranking = Len(all_scores) THEN "last"
                            ELSE "between"] :
          all_scores \in {<<user_score>> \o comp_scores},
          ranking \in {Index(SortedDescending(<<user_score>> \o comp_scores), user_score) + 1} })

\* a caller runs generate_comparison_report (one call is followed: the function
\* reads and keeps nothing of an earlier call)
ReportCall ==
    /\ comparison.rank_insight = ""
    /\ \E user_score \in ReportScores, comp_scores \in CompScoreLists :
         /\ report_args' = [user_score |-> user_score, comp_scores |-> comp_scores]
         /\ comparison' = GenerateComparisonReport(user_score, comp_scores)
    /\ UNCHANGED <<gatewayVars, generateVars, runVars, monitorVars, competitorVars, comprehensiveVars, promptVars>>

ReportSpec == CompetitorInit /\ [][ReportCall]_vars

-----------------------------------------------------------------------------
(* VisibilityMonitor.run_comprehensive_test and test_across_models          *)
(* (visibility_monitor.py)                                                  *)

\* AI_MODELS: three of its seven entries, one per provider the calls differ on
AI_MODELS ==
    << [id |-> "gpt-5.1", name |-> "GPT-5.1", provider |-> "openai"],
       [id |-> "claude-sonnet-4", name |-> "Claude Sonnet 4", provider |-> "anthropic"],
       [id |-> "sonar", name |-> "Perplexity Sonar", provider |-> "perplexity"] >>

\* the most prompts generate_smart_prompts returns in the model
MaxSmartPrompts == 2

SmartPrompts == {"Best running shoes?", "Acme vs Globex?"}
SmartPromptLists == UNION {[1..n -> SmartPrompts] : n \in 0..MaxSmartPrompts}

\* what _analyze_response can do with a response: an analysis that has the brand
\* mentioned or not, or an exception
Analyses == {"mentioned", "not mentioned", RAISE}

\* the ModelResult of a model whose response was analyzed, and the one of the
\* except clause
MonitorModelResult(model_info, brand_mentioned) ==
    [model_id |-> model_info.id, model_name |-> model_info.name,
     provider |-> model_info.provider, brand_mentioned |-> brand_mentioned]

\* _call_specific_model: None when the gateway is missing, when the provider is
\* not configured, and when generate_with_model raises; else what it returned
CallSpecificModel(provider, reply) ==
    IF ~ai_service_ok \/ provider \notin get_available_providers THEN None
    ELSE IF reply = RAISE THEN None
    ELSE reply

\* one iteration of `for model_info in self.models` of test_across_models:
\* `results` after it.  Nothing is appended for a model that returned nothing.
TestedModel(results, model_info, response, analysis) ==
    IF ~Truthy(response) THEN results
    ELSE IF analysis = RAISE THEN Append(results, MonitorModelResult(model_info, FALSE))
    ELSE Append(results, MonitorModelResult(model_info, analysis = "mentioned"))

\* sum(1 for r in results if r.brand_mentioned)
ModelsMentioning(results) ==
    Cardinality({k \in 1..Len(results) : results[k].brand_mentioned})

\* the entry of prompt_summaries made from the MultiModelResult of a prompt
PromptSummary(prompt, results) ==
    [prompt |-> prompt,
     models_mentioning |-> ModelsMentioning(results),
     models_tested |-> Len(results),
     results |-> results]

\* all_results: the results of every summary, in order
RECURSIVE AllResults(_)
AllResults(summaries) ==
    IF Len(summaries) = 0 THEN <<>>
    ELSE Head(summaries).results \o AllResults(Tail(summaries))

\* _build_visibility_matrix
BuildVisibilityMatrix(summaries) ==
    IF Len(summaries) = 0 THEN [columns |-> <<>>, rows |-> <<>>]
    ELSE [columns |-> [k \in 1..Len(summaries[1].results) |->
                          summaries[1].results[k].model_name],
          rows |-> [i \in 1..Len(summaries) |->
                       [k \in 1..Len(summaries[i].results) |->
                           summaries[i].results[k].brand_mentioned]]]

\* the dict run_comprehensive_test returns
ComprehensiveReport(ps, summaries) ==
    The({ [total_tests |-> Len(results),
           total_mentions |-> ModelsMentioning(results),
           prompts_tested |-> Len(ps),
           models_tested |-> Len(AI_MODELS),
           prompt_results |-> summaries,
           model_performance |->
               [m \in {results[k].model_id : k \in 1..Len(results)} |->
                   [total |-> Cardinality({k \in 1..Len(results) :
                                              results[k].model_id = m}),
                    mentions |-> Cardinality({k \in 1..Len(results) :
                                                 /\ results[k].model_id = m
                                                 /\ results[k].brand_mentioned})]],
           matrix |-> BuildVisibilityMatrix(summaries)] :
          results \in {AllResults(summaries)} })

\* a caller starts run_comprehensive_test: generate_smart_prompts returns
ComprehensiveCall ==
    /\ ct_pc = "idle"
    /\ \E ps \in SmartPromptLists : ct_prompts' = ps
    /\ ct_pc' = "testing"
    /\ UNCHANGED <<ct_pos, ct_results, prompt_summaries, ct_report>>
    /\ UNCHANGED <<gatewayVars, generateVars, runVars, monitorVars, competitorVars, reportVars,
                 promptVars>>

\* test_across_models, one iteration of its loop: the model is called and its
\* response analyzed; after the last model the MultiModelResult goes back to
\* run_comprehensive_test, which appends its summary and takes the next prompt
TestModel ==
    /\ ct_pc = "testing"
    /\ ct_pos[1] <= Len(ct_prompts)
    /\ \E reply \in {RAISE, None, "", "text"}, analysis \in Analyses :
         \E results \in {TestedModel(ct_results, AI_MODELS[ct_pos[2]],
                                      CallSpecificModel(AI_MODELS[ct_pos[2]].provider, reply),
                                      analysis)} :
             IF ct_pos[2] < Len(AI_MODELS)
             THEN /\ ct_results' = results
                  /\ ct_pos' = <<ct_pos[1], ct_pos[2] + 1>>
                  /\ UNCHANGED prompt_summaries
             ELSE /\ ct_results' = <<>>
                  /\ ct_pos' = <<ct_pos[1] + 1, 1>>
                  /\ prompt_summaries' =
                         Append(prompt_summaries,
                                PromptSummary(ct_prompts[ct_pos[1]], results))
    /\ UNCHANGED <<ct_pc, ct_prompts, ct_report>>
    /\ UNCHANGED <<gatewayVars, generateVars, runVars, monitorVars, competitorVars, reportVars,
                 promptVars>>

\* after the last prompt: the statistics and the return
ComprehensiveReturn ==
    /\ ct_pc = "testing"
    /\ ct_pos[1] > Len(ct_prompts)
    /\ ct_pc' = "done"
    /\ ct_report' = ComprehensiveReport(ct_prompts, prompt_summaries)
    /\ UNCHANGED <<ct_prompts, ct_pos, ct_results, prompt_summaries>>
    /\ UNCHANGED <<gatewayVars, generateVars, runVars, monitorVars, competitorVars, reportVars,
                 promptVars>>

ComprehensiveNext == ComprehensiveCall \/ TestModel \/ ComprehensiveReturn

ComprehensiveSpec == MonitorInit /\ [][ComprehensiveNext]_vars

-----------------------------------------------------------------------------
(* Properties of MultiProviderAI.generate                                  *)

\* a provider, or one attempt, failed: it raised or returned empty text
Failed(r) == r = RAISE \/ ~Truthy(r)

\* the positions of provider_order ahead of pos that name a configured provider
ConfiguredAhead(pos) == {q \in 1..(pos - 1) : provider_order[q] \in providers}

\* C1: generate tries the configured providers strictly in priority order and
\* returns the text of the first one that yields non-empty text: a provider is
\* invoked only after every configured provider ahead of it in provider_order has
\* failed (raised or returned empty text) in the same call, no provider is invoked
\* after one returned non-empty text, and the text returned is that provider's.
C1_PriorityOrder ==
    /\ \A k \in 1..Len(g_tried) :
          /\ \A q \in ConfiguredAhead(g_tried[k].pos) :
                \E j \in 1..(k - 1) : g_tried[j].pos = q /\ Failed(g_tried[j].result)
          /\ \A j \in 1..(k - 1) :
                Failed(g_tried[j].result) /\ g_tried[j].pos < g_tried[k].pos
    /\ \A k \in 1..Len(g_tried) :
          ~Failed(g_tried[k].result) =>
              g_pc = "returned" /\ g_ret = g_tried[k].result /\ k = Len(g_tried)
    /\ (g_pc = "returned" /\ g_ret # None) =>
          /\ Len(g_tried) > 0
          /\ g_ret = g_tried[Len(g_tried)].result
          /\ Truthy(g_ret)

\* C1 witness: the first configured provider failed and the second one's text was returned
C1_Witness ==
    /\ g_pc = "returned"
    /\ Len(g_tried) = 2
    /\ Failed(g_tried[1].result)
    /\ g_ret = g_tried[2].result
    /\ Truthy(g_ret)

\* C2 (as claimed): for each provider tried, the primary model is attempted first
\* and, when it raises or returns empty text, exactly one fallback attempt is made
\* against the same provider before the next provider is tried, whatever json_mode
\* and web_search are.
C2_FallbackOnErrorOrEmpty ==
    \A k \in 1..Len(g_tried) :
        LET a == g_tried[k].attempts
        IN  /\ a[1].variant = "primary"
            /\ \A i \in 1..Len(a) : a[i].provider = g_tried[k].provider
            /\ IF Failed(a[1].reply)
               THEN Len(a) = 2 /\ a[2].variant = "fallback"
               ELSE Len(a) = 1

\* C3: when every configured provider fails in a call (fallback included), or no
\* provider is configured, generate returns None as a normal result; no exception
\* ever reaches its caller.
C3_AllExhaustedReturnsNone ==
    /\ g_ret # Escaped
    /\ (g_pc = "returned" /\ \A k \in 1..Len(g_tried) : Failed(g_tried[k].result))
          => g_ret = None

\* C3 witness: two providers were tried, one raised in both its attempts, the other
\* failed too, and the call returned None
C3_Witness ==
    /\ g_pc = "returned"
    /\ g_ret = None
    /\ Len(g_tried) >= 2
    /\ \E k \in 1..Len(g_tried) : g_tried[k].result = RAISE
    /\ \A k \in 1..Len(g_tried) : Failed(g_tried[k].result)

-----------------------------------------------------------------------------
(* Properties of SpeedTestService._query_all_parallel and run_test         *)

Done == r_pc = "done"

\* the tasks whose provider can be called: the gateway exists and has the provider
Callable(i) == ai_service_ok /\ tasks[i].model.provider \in providers

\* a cell that carries an error
Errored(c) == c.error # None

\* the number of prompts of the run with this text
Occurrences(text) == Cardinality({p \in 1..Len(prompts) : prompts[p].text = text})

\* C4: _query_all_parallel always terminates, raises nothing and returns exactly
\* len(prompts) * len(MODELS) cells, one per (prompt, model) pair, whatever the
\* outcome of each cell (answer, exception, empty text, provider not configured),
\* also when every model but one always errors.
C4_FanInReturnsFullMatrix ==
    /\ [](r_pc # "raised")
    /\ [](Done =>
            /\ Len(all_results) = Len(prompts) * Len(MODELS)
            /\ \A p \in 1..Len(prompts), m \in 1..Len(MODELS) :
                 Cardinality({i \in 1..Len(all_results) :
                                 /\ all_results[i].prompt = prompts[p].text
                                 /\ all_results[i].model_id = MODELS[m].id})
                 = Occurrences(prompts[p].text))
    /\ (r_pc = "gathering" ~> Done)

\* C4 witness: a finished run of two prompts in which every cell of one model
\* errored and a cell of the other model has an answer
C4_Witness ==
    /\ Done
    /\ Len(prompts) = 2
    /\ Len(all_results) = 4
    /\ \A i \in 1..Len(all_results) :
         all_results[i].provider = "anthropic" => Errored(all_results[i])
    /\ \E i \in 1..Len(all_results) : ~Errored(all_results[i])

\* C5: no cell is cancelled or skipped because a sibling failed or is slow: the
\* list goes back to run_test only after every dispatched cell finished, a finished
\* cell stays finished, and every cell whose provider can be called made its own
\* upstream request.
C5_NoCancellationFanInBarrier ==
    (r_pc \in {"done", "raised"}) =>
          \A i \in 1..Len(tasks) :
              /\ tasks[i].pc = "done"
              /\ Callable(i) => Len(tasks[i].calls) >= 1

\* C5 witness: a finished run in which a cell failed (an exception left its task)
\* and a later cell still got its answer
C5_Witness ==
    /\ Done
    /\ \E i \in 1..Len(tasks) : \E j \in (i + 1)..Len(tasks) :
         /\ tasks[i].result.raised
         /\ ~Errored(all_results[j])
         /\ Len(tasks[j].calls) >= 1

\* two cells of the run have their upstream request in flight at the same time
TwoInFlight ==
    \E i \in 1..Len(tasks) : \E j \in 1..Len(tasks) :
        i # j /\ tasks[i].pc = "in_call" /\ tasks[j].pc = "in_call"

\* C6 (as claimed): true fan-out: once a run with two callable cells is gathering,
\* a state is reached in which the upstream requests of two of its cells are in
\* flight together.
C6_TrueFanOut ==
    (/\ r_pc = "gathering"
     /\ \E i \in 1..Len(tasks) : \E j \in 1..Len(tasks) : i # j /\ Callable(i) /\ Callable(j))
    ~> TwoInFlight

\* C7: every cell returned either has a non-empty answer and no error, or an error
\* and an empty answer; a missing gateway, an unconfigured provider, an empty or
\* failed gateway result and an exception of the task all give the latter; an
\* errored cell is not mentioned, has no position, neutral sentiment, no competitors.
C7_ErrorCells ==
    Done =>
        \A i \in 1..Len(all_results) :
            LET c == all_results[i]
            IN  /\ \/ c.full_response # "" /\ c.error = None
                   \/ c.error # None /\ c.error # "" /\ c.full_response = ""
                /\ (~Callable(i) \/ tasks[i].gw_failed \/ tasks[i].result.raised)
                      => Errored(c)
                /\ Errored(c) =>
                      /\ c.mentioned = FALSE
                      /\ c.position = <<>>
                      /\ c.sentiment = "neutral"
                      /\ c.competitors_found = <<>>

\* C7 witness: a finished run with an answered cell, a cell whose gateway call
\* came back empty and a cell whose task raised
C7_Witness ==
    /\ Done
    /\ \E i \in 1..Len(tasks) : ~Errored(all_results[i]) /\ all_results[i].mentioned
    /\ \E i \in 1..Len(tasks) : tasks[i].gw_failed /\ Errored(all_results[i])
    /\ \E i \in 1..Len(tasks) : tasks[i].result.raised /\ Errored(all_results[i])

\* C8: the cell at index i (from 0) of the returned list carries
\* prompts[i div M] and MODELS[i mod M], M = len(MODELS), whatever happened to the
\* cells' calls.
C8_KeyedByIndex ==
    Done =>
        \A i \in 0..(Len(all_results) - 1) :
            /\ all_results[i + 1].prompt = prompts[(i \div Len(MODELS)) + 1].text
            /\ all_results[i + 1].model_id = MODELS[(i % Len(MODELS)) + 1].id
            /\ all_results[i + 1].provider = MODELS[(i % Len(MODELS)) + 1].provider

\* C8 witness: two different prompts, and the task of the second prompt's second
\* model raised, so that its cell was rebuilt from its index
C8_Witness ==
    /\ Done
    /\ Len(prompts) = 2
    /\ prompts[1].text # prompts[2].text
    /\ tasks[4].result.raised
    /\ ~tasks[1].result.raised

\* C9 (as claimed): mention_rate = mentioned cells / all cells of the run, errored
\* cells in the denominator: mention_rate = total_mentions / total_tests.
C9_MentionRateOverAllCells ==
    (Done /\ score_response.total_tests > 0) =>
        /\ score_response.mention_rate.num * Len(all_results)
             = Mentions(all_results) * score_response.mention_rate.den
        /\ score_response.mention_rate.num * score_response.total_tests
             = score_response.total_mentions * score_response.mention_rate.den

\* C10: the score is an integer in 0..100 and 0 <= mention_rate <= 1, for every
\* cell list, the empty one included.
C10_ScoreAndRateBounds ==
    Done =>
        /\ score_response.score \in 0..100
        /\ score_response.mention_rate.den > 0
        /\ score_response.mention_rate.num >= 0
        /\ score_response.mention_rate.num <= score_response.mention_rate.den

\* C10 witness: a list of two cells that both mention the brand first, with
\* praise, on two providers: the score is 100 and the rate 1
C10_Witness ==
    /\ Done
    /\ Len(all_results) = 2
    /\ \A i \in 1..Len(all_results) : all_results[i].error = None
    /\ score_response.score = 100
    /\ score_response.mention_rate = Ratio(2, 2)

-----------------------------------------------------------------------------
(* Properties of the score aggregation                                     *)

\* C11 (as claimed): for a non-empty list given to _calculate_score,
\* score = min(100, int(base + positionBonus + sentimentBonus + consistencyBonus)),
\* base = 60 * mentioned / total; positionBonus from the mean position of the cells
\* that have a position (20 if <= 2, 10 if <= 4, else 0; 0 when none has one);
\* sentimentBonus 10 / 5 / 0 for more than 50% / 25% of the mentioned cells
\* positive; consistencyBonus 10 / 5 / 0 for >= 2 / 1 / 0 mentioning providers.
C11_ScoreFormula ==
    LET results == ValidResults(all_results)
        total == Len(results)
        mentioned == {i \in 1..total : results[i].mentioned}
        positioned == {i \in 1..total : results[i].position # <<>>}
        possum == Sum([i \in 1..total |->
                        IF i \in positioned THEN results[i].position[1] ELSE 0])
        positive == {i \in mentioned : results[i].sentiment = "positive"}
        mentioning == {results[i].provider : i \in mentioned}
        base == (60 * Cardinality(mentioned)) \div total
        positionBonus == IF positioned = {} THEN 0
                         ELSE IF possum <= 2 * Cardinality(positioned) THEN 20
                         ELSE IF possum <= 4 * Cardinality(positioned) THEN 10
                         ELSE 0
        sentimentBonus == IF 2 * Cardinality(positive) > Cardinality(mentioned) THEN 10
                          ELSE IF 4 * Cardinality(positive) > Cardinality(mentioned) THEN 5
                          ELSE 0
        consistencyBonus == IF Cardinality(mentioning) >= 2 THEN 10
                            ELSE IF Cardinality(mentioning) = 1 THEN 5
                            ELSE 0
        sum == base + positionBonus + sentimentBonus + consistencyBonus
    IN  (Done /\ total > 0) =>
            score_response.score = IF sum < 100 THEN sum ELSE 100

\* C12: verdict and grade are a function of the score with lower-inclusive
\* boundaries: below 20 invisible/F, 20..39 ghost/D, 40..59 contender/C,
\* 60..79 visible/B, 80 and above authority/A, for every score in 0..100.
C12_VerdictBoundaries ==
    Done =>
        LET score == score_response.score
            verdict == score_response.verdict
            grade == score_response.grade
        IN  /\ score \in 0..19 => verdict = "invisible" /\ grade = "F"
            /\ score \in 20..39 => verdict = "ghost" /\ grade = "D"
            /\ score \in 40..59 => verdict = "contender" /\ grade = "C"
            /\ score \in 60..79 => verdict = "visible" /\ grade = "B"
            /\ score \in 80..100 => verdict = "authority" /\ grade = "A"

\* C12 witness: the boundary score 20 got its verdict, and it is ghost/D
C12_Witness ==
    /\ Done
    /\ score_response.score = 20
    /\ score_response.verdict = "ghost"
    /\ score_response.grade = "D"

-----------------------------------------------------------------------------
(* Properties of run_test as a whole                                       *)

\* C13 (as claimed): a partial failure never makes run_test fail, and a total
\* failure (no cell, or no cell that completed) is reported as a failure of the
\* run, not as a normal score result.
C13_TotalFailureSurfaced ==
    /\ r_pc = "raised" => \A i \in 1..Len(tasks) : tasks[i].result.raised
    /\ Done => \E i \in 1..Len(all_results) : ~Errored(all_results[i])

\* the number of times a (title-cased) competitor name was found across cells
Found(results, name) ==
    LET names == CompetitorNames(results, brand_name)
    IN  Cardinality({k \in 1..Len(names) : names[k] = name})

\* C15 (as claimed): the competitor ranking of run_test has at most 5 entries, in
\* non-increasing order of count, none of them the brand or a name containing
\* it; the count of an entry is the number of times its name was found across
\* the cells of the run, and its rate is that count over the total cell count of
\* the run (as the nearest percentage).
C15_CompetitorRanking ==
    Done =>
        LET comps == score_response.competitors
            total == Len(all_results)
        IN  /\ Len(comps) <= 5
            /\ \A k \in 1..(Len(comps) - 1) : comps[k].mentions >= comps[k + 1].mentions
            /\ \A k \in 1..Len(comps) :
                   /\ CompetitorKey(brand_name, comps[k].name) # <<>>
                   /\ comps[k].mentions = Found(all_results, comps[k].name)
                   /\ comps[k].rate = RoundPercent(comps[k].mentions, total)

\* a ratio [num, den] is at most another
RatioLeq(a, b) == a.num * b.den <= b.num * a.den

\* the cells of the run with this prompt text / this model id
CellsOfPrompt(text) == {i \in 1..Len(all_results) : all_results[i].prompt = text}
CellsOfModel(id) == {i \in 1..Len(all_results) : all_results[i].model_id = id}
MentionedIn(cells) == {i \in cells : all_results[i].mentioned}

\* C16: the per-prompt breakdown has one group per prompt, the cells of the run
\* with that prompt text, and the per-model breakdown one group per model id; the
\* rate of a group is mentioned cells / all cells of the group, the errored cells
\* counted in the denominator (a ratio per prompt, the nearest percentage per
\* model); worst_prompt is a group of minimal mention rate.
C16_Breakdowns ==
    Done =>
        LET pr == score_response.prompt_results
            mb == score_response.model_breakdown
            wp == score_response.worst_prompt
        IN  /\ Len(pr) = Len(prompts)
            /\ \A k \in 1..Len(pr) :
                   LET group == CellsOfPrompt(prompts[k].text)
                   IN  /\ pr[k].prompt = prompts[k].text
                       /\ Len(pr[k].models) = Cardinality(group)
                       /\ \A j \in 1..Len(pr[k].models) :
                              pr[k].models[j].prompt = prompts[k].text
                       /\ group # {}
                       /\ pr[k].mention_rate.num * Cardinality(group)
                            = Cardinality(MentionedIn(group)) * pr[k].mention_rate.den
            /\ {mb[k].model_id : k \in 1..Len(mb)}
                 = {all_results[i].model_id : i \in 1..Len(all_results)}
            /\ \A k, j \in 1..Len(mb) : mb[k].model_id = mb[j].model_id => k = j
            /\ \A k \in 1..Len(mb) :
                   LET group == CellsOfModel(mb[k].model_id)
                   IN  /\ mb[k].total = Cardinality(group)
                       /\ mb[k].mentions = Cardinality(MentionedIn(group))
                       /\ mb[k].rate = RoundPercent(mb[k].mentions, mb[k].total)
            /\ Len(wp) = 1
            /\ \E k \in 1..Len(pr) :
                   /\ wp[1].prompt = pr[k].prompt
                   /\ wp[1].mention_rate = pr[k].mention_rate
                   /\ wp[1].total_models = Len(pr[k].models)
                   /\ \A j \in 1..Len(pr) : RatioLeq(pr[k].mention_rate, pr[j].mention_rate)

\* C16 witness: a run of two different prompts; the group of the first holds an
\* errored cell and a mentioning cell and has rate 1/2, the second has rate 0
\* and is the worst prompt
C16_Witness ==
    /\ Done
    /\ Len(prompts) = 2
    /\ prompts[1].text # prompts[2].text
    /\ \E i, j \in CellsOfPrompt(prompts[1].text) :
           Errored(all_results[i]) /\ all_results[j].mentioned
    /\ score_response.prompt_results[1].mention_rate = Ratio(1, 2)
    /\ score_response.prompt_results[2].mention_rate.num = 0
    /\ score_response.worst_prompt[1].prompt = prompts[2].text

-----------------------------------------------------------------------------
(* Properties of VisibilityMonitor._analyze_response                       *)

\* C14 (as claimed): whenever the judgment call of the delegated analysis fails
\* (the gateway returns nothing, or its output does not parse), the signals of the
\* cell are those of the rule-based method.
C14_FailedJudgmentFallsBack ==
    (/\ m_pc = "done"
     /\ ai_service_ok
     /\ \/ ~Truthy(m_input.judged)
        \/ JsonLoads(Strip(m_input.judged)).kind = "error")
    => m_result = RuleBased(m_input.brand, m_input.competitors, m_input.response)

-----------------------------------------------------------------------------
(* Properties of the response analyzer                                     *)

Analyzed == r_pc = "analyzed"

\* the rule of C17: lowercase, "-", "_", "." and runs of whitespace collapsed to
\* single spaces; the normalized brand is in the normalized text, or the brand
\* without spaces is in the text without spaces
NormalizedMention(brand, text) ==
    LET b == NormalizeForMatching(brand)
        t == NormalizeForMatching(text)
    IN  \/ Contains(t, b)
        \/ Contains(Replace(t, " ", ""), Replace(b, " ", ""))

\* the rule of C17 for every (brand, answer) pair of the model, computed once
NormalizedMentionTable ==
    [b \in AnalyzerBrands |-> ([t \in AnalyzerTexts |-> NormalizedMention(b, t)] @@ <<>>)] @@ <<>>

\* C17 (as claimed): the cell of an answer reports the brand as mentioned exactly
\* when the normalized brand is a substring of the normalized text or the
\* space-stripped brand a substring of the space-stripped text.
C17_NormalizedBrandMatch ==
    Analyzed =>
        all_results[1].mentioned
            = NormalizedMentionTable[brand_name][all_results[1].full_response]

\* the rule of C18 for the line of the brand: the digits a line starts with when
\* one of . ( ) - : follows them, "" otherwise
LeadingNumber(line) ==
    LET a == RunEnd(line, 1, "\\s") + 1
        b == RunEnd(line, a, "\\d")
    IN  IF b >= a /\ b < Len(line) /\ Char(line, b + 1) \in {".", "(", ")", "-", ":"}
        THEN SubSeq(line, a, b)
        ELSE ""

\* the rule of C18: the kind of the first line that mentions the brand, and the
\* position the rule gives for a numbered and for a bullet-marked line
ListPosition(brand, text) ==
    LET lines == Split(text, "\n")
        hits == {i \in 1..Len(lines) : NormalizedMention(brand, lines[i])}
        i == CHOOSE h \in hits : \A g \in hits : h <= g
    IN  IF hits = {} THEN [kind |-> "prose", value |-> 0]
        ELSE IF LeadingNumber(lines[i]) # ""
        THEN [kind |-> "number", value |-> ParseInt(LeadingNumber(lines[i]))]
        ELSE IF IsBullet(lines[i])
        THEN [kind |-> "bullet", value |-> Cardinality({j \in 1..i : IsBullet(lines[j])})]
        ELSE [kind |-> "prose", value |-> 0]

\* the rule of C18 for every (brand, answer) pair of the model, computed once
ListPositionTable ==
    [b \in AnalyzerBrands |-> ([t \in AnalyzerTexts |-> ListPosition(b, t)] @@ <<>>)] @@ <<>>

\* C18 (as claimed): a cell that mentions the brand has a positive integer
\* position: the leading number of the brand's line when the line starts with
\* digits followed by one of . ( ) - :, else the count of bullet-marked lines up
\* to it when it starts with a bullet marker, else the count of capitalized
\* tokens before the brand plus one (here: some positive integer).
C18_MentionedCellHasPosition ==
    (Analyzed /\ all_results[1].mentioned) =>
        LET position == all_results[1].position
            claimed == ListPositionTable[brand_name][all_results[1].full_response]
        IN  /\ position # <<>>
            /\ position[1] >= 1
            /\ claimed.kind \in {"number", "bullet"} => position[1] = claimed.value

\* C19: the competitor list of a cell holds no stop-word, no token equal to or
\* containing the brand (whatever the case), no token with a digit, only tokens
\* of 3 to 30 characters, and at most 10 entries; for brand "Acme" and the answer
\* "The best options are Acme, Globex, and Initech." it is <<Globex, Initech>>.
C19_CompetitorListFiltered ==
    Analyzed =>
        LET comps == all_results[1].competitors_found
        IN  /\ Len(comps) <= 10
            /\ \A k \in 1..Len(comps) :
                   /\ Lower(comps[k]) \notin skip_words
                   /\ ~Contains(Lower(comps[k]), Lower(brand_name))
                   /\ \A i \in 1..Len(comps[k]) : ~IsDigit(Char(comps[k], i))
                   /\ Len(comps[k]) >= 3
                   /\ Len(comps[k]) <= 30
            /\ (/\ brand_name = "Acme"
                /\ all_results[1].full_response
                     = "The best options are Acme, Globex, and Initech.")
               => comps = <<"Globex", "Initech">>

\* C19 witness: the cell of the example answer for brand Acme, with exactly the
\* two competitors
C19_Witness ==
    /\ Analyzed
    /\ brand_name = "Acme"
    /\ all_results[1].full_response = "The best options are Acme, Globex, and Initech."
    /\ all_results[1].mentioned
    /\ all_results[1].competitors_found = <<"Globex", "Initech">>

-----------------------------------------------------------------------------
(* Properties of the gateway under concurrent callers                      *)

\* the tasks a step changed
Changed == {i \in 1..Len(tasks) : i \in 1..Len(tasks') /\ tasks'[i] # tasks[i]}

\* what generate returns, from the attempts of the call alone
OutcomeOf(tried) ==
    IF tried # <<>> /\ ~Failed(tried[Len(tried)].result)
    THEN tried[Len(tried)].result
    ELSE None

\* C20: the gateway keeps no state across calls beyond the provider table built
\* at start-up: no step of a generate, generate_with_model or
\* get_available_providers call, in any interleaving, changes the provider table
\* or the priority order; a step of one call leaves every other call in flight as
\* it was; and what generate returns is determined by the attempts of that call.
C20_GatewayStateless ==
    [][/\ providers' = providers
       /\ provider_order' = provider_order
       /\ get_available_providers' = get_available_providers
       /\ generateVars' # generateVars => UNCHANGED runVars
       /\ (r_pc = "gathering" /\ tasks' # tasks) =>
              /\ UNCHANGED generateVars
              /\ r_pc' = "gathering" => Cardinality(Changed) = 1
       /\ g_pc' = "returned" => g_ret' = OutcomeOf(g_tried')]_vars

\* C20 witness: a generate call has returned a text after a provider failed while
\* a generate_with_model call of the run is in flight and another one is over
C20_Witness ==
    /\ r_pc = "gathering"
    /\ \E i, j \in 1..Len(tasks) : tasks[i].pc = "in_call" /\ tasks[j].pc = "done"
    /\ g_pc = "returned"
    /\ Len(g_tried) >= 2
    /\ Truthy(g_ret)
    /\ providers = ModelProviders

-----------------------------------------------------------------------------
(* Properties of CompetitorAnalyzer.discover_top_competitors                *)

\* the place of a step in the chain
StepRank(step) == CASE step = "anthropic" -> 1 [] step = "google" -> 2 [] step = "generate" -> 3

\* the step is one the function may take: generate_with_model on a provider needs
\* the provider among the available ones, generate is always there
StepAvailable(step) == step = "generate" \/ step \in get_available_providers

\* the result discover_top_competitors returns for a response text
ResultFrom(reply, request) ==
    IF ParseCompetitorResponse(reply, request.brand, request.category, request.location).raised
    THEN CompetitorDiscoveryResult(request.brand, request.category, request.location)
    ELSE ParseCompetitorResponse(reply, request.brand, request.category,
                                 request.location).result

\* C21: discover_top_competitors consults Claude, then Gemini, then generate, in
\* that order: a step is called only when every earlier available step was called
\* and raised or produced no response, no step is called after one produced a
\* response, and the result is parsed from the first response obtained.
C21_FallbackChainInOrder ==
    /\ \A i, j \in 1..Len(c_calls) :
           i < j => StepRank(c_calls[i].step) < StepRank(c_calls[j].step)
    /\ \A j \in 1..Len(c_calls) :
           /\ StepAvailable(c_calls[j].step)
           /\ \A step \in {"anthropic", "google"} :
                  (StepRank(step) < StepRank(c_calls[j].step) /\ StepAvailable(step))
                  => \E i \in 1..(j - 1) : c_calls[i].step = step
           /\ \A i \in 1..(j - 1) : ~Truthy(Received(c_calls[i].reply))
    /\ (c_pc = "returned" /\ c_calls # <<>>
        /\ Truthy(Received(c_calls[Len(c_calls)].reply)))
       => c_result = ResultFrom(c_calls[Len(c_calls)].reply, c_request)

\* C21 witness: Claude raised, Gemini answered, generate was not called, and the
\* competitor of the Gemini answer is the result
C21_Witness ==
    /\ c_pc = "returned"
    /\ Len(c_calls) = 2
    /\ c_calls[1] = Call("anthropic", RAISE)
    /\ c_calls[2].step = "google"
    /\ c_result.total_found = 1
    /\ c_result.global_competitors[1].name = "Competitor via Gemini"

\* C22: discover_top_competitors never raises, and when no provider is available,
\* when every step of the chain raised or returned nothing, or when the response
\* cannot be parsed, it returns an empty CompetitorDiscoveryResult that echoes the
\* requested brand, category and location.
C22_NeverRaisesEmptyOnFailure ==
    /\ c_pc # "raised"
    /\ (c_pc = "returned"
        /\ \/ ~is_available
           \/ \A i \in 1..Len(c_calls) : ~Truthy(Received(c_calls[i].reply))
           \/ ~ParsedTable[c_calls[Len(c_calls)].reply].decoded
           \/ ParsedTable[c_calls[Len(c_calls)].reply].raised)
       => /\ c_result.total_found = 0
          /\ c_result.local_competitors = <<>>
          /\ c_result.global_competitors = <<>>
          /\ c_result.brand = c_request.brand
          /\ c_result.category = c_request.category
          /\ c_result.location = c_request.location

\* C22 witness: Claude returned nothing, Gemini raised, and generate answered with
\* a JSON array, on which the parser raises an exception that is not a
\* JSONDecodeError; the empty result for the requested location came back
C22_Witness ==
    /\ c_pc = "returned"
    /\ c_calls = <<Call("anthropic", None), Call("google", RAISE), Call("generate", "[]")>>
    /\ c_request.location = "France"
    /\ c_result = CompetitorDiscoveryResult("Acme", "Fashion", "France")

-----------------------------------------------------------------------------
(* Properties of CompetitorAnalyzer._parse_competitor_response              *)

\* the entry has a name that is a non-empty string
Named(comp) == comp.t = "obj" /\ Get(comp, "name", JStr("")).t = "str" /\ Get(comp, "name", JStr("")).s # ""

\* the named entries among the first ten of the list under `key`
NamedAmong(data, key) ==
    Cardinality({k \in 1..Len(FirstTen(Get(data, key, JArr(<<>>))).items) :
                    Named(FirstTen(Get(data, key, JArr(<<>>))).items[k])})

\* the number of named entries of every text the parser builds lists from
NamedTable ==
    [t \in {x \in CompetitorTexts : ParsedTable[x].decoded /\ ~ParsedTable[x].raised} |->
        The({ NamedAmong(data, "local_competitors") + NamedAmong(data, "global_competitors") :
              data \in {JsonDecode(Strip(t)).data} })] @@ <<>>

\* C23: _parse_competitor_response skips every competitor entry whose name is
\* missing or empty: no entry of local_competitors or global_competitors has an
\* empty name, and total_found is the number of named entries among the first ten
\* local and the first ten global entries of the response.
C23_NamelessEntriesSkipped ==
    (c_pc = "returned" /\ Truthy(c_response) /\ c_response \in DOMAIN NamedTable)
    => /\ \A k \in 1..Len(c_result.local_competitors) :
              c_result.local_competitors[k].name # ""
       /\ \A k \in 1..Len(c_result.global_competitors) :
              c_result.global_competitors[k].name # ""
       /\ c_result.total_found = NamedTable[c_response]

-----------------------------------------------------------------------------
(* Properties of CompetitorAnalyzer.generate_comparison_report              *)

\* a report was generated
Reported == comparison.rank_insight # ""

\* the competitors whose score is strictly greater than the user's
StrictlyAhead(args) ==
    {k \in 1..Len(args.comp_scores) : args.comp_scores[k] > args.user_score}

\* C24: in generate_comparison_report, for every user score and list of
\* competitor scores, ranking is 1 + the number of competitors whose score is
\* strictly greater than the user's, total_analyzed is the number of
\* competitors + 1, and 1 <= ranking <= total_analyzed.
C24_RankingCountsStrictlyGreater ==
    Reported =>
        /\ comparison.ranking = 1 + Cardinality(StrictlyAhead(report_args))
        /\ comparison.total_analyzed = Len(report_args.comp_scores) + 1
        /\ 1 <= comparison.ranking
        /\ comparison.ranking <= comparison.total_analyzed

\* C24 witness: the user at 70 against 80, 70 and 60 is second of four, the rank
\* shared with the competitor it is tied with
C24_Witness ==
    /\ Reported
    /\ report_args = [user_score |-> 70, comp_scores |-> <<80, 70, 60>>]
    /\ comparison.ranking = 2
    /\ comparison.total_analyzed = 4
    /\ comparison.competitors[2].status = "tied"

-----------------------------------------------------------------------------
(* Properties of MultiProviderAI.generate_with_model                       *)

\* C25: whenever generate_with_model calls an upstream service, the call goes to
\* the given provider with exactly the model identifier passed in `model`, for
\* every provider, openai included, and it returns None without raising when the
\* provider is not configured or the call fails.
C25_SpecificModelUsed ==
    \A i \in 1..Len(tasks) :
        /\ \A k \in 1..Len(tasks[i].calls) :
               /\ tasks[i].calls[k].provider = tasks[i].model.provider
               /\ tasks[i].calls[k].model = ModelIdMapping(tasks[i].model.id)
        /\ tasks[i].gw_failed => (tasks[i].pc = "done" /\ ~tasks[i].result.raised)

-----------------------------------------------------------------------------
(* Properties of VisibilityMonitor.run_comprehensive_test                   *)

\* C26: run_comprehensive_test returns the full prompts x models matrix: every
\* prompt row holds one result per catalog model, so total_tests =
\* prompts_tested * models_tested, also for models that return nothing, raise, or
\* whose provider is not configured.
C26_FullPromptModelMatrix ==
    ct_pc = "done" =>
        /\ \A i \in 1..Len(ct_report.prompt_results) :
               /\ Len(ct_report.prompt_results[i].results) = Len(AI_MODELS)
               /\ Len(ct_report.matrix.rows[i]) = Len(AI_MODELS)
        /\ ct_report.total_tests = ct_report.prompts_tested * ct_report.models_tested

-----------------------------------------------------------------------------
(* Properties of the prompts run_test generates                             *)

\* run_test calls that generate their prompts, followed up to asyncio.gather
PromptSpec == Init /\ [][RunTestGenerated]_vars

\* some cell of the run is tested with a prompt that starts with `text`
TestedWith(text) == \E i \in 1..Len(tasks) : StartsWith(tasks[i].prompt, text)

\* C27: the prompts run_test generates for a brand include a comparison prompt
\* ("<brand> vs <competitor>") whenever the brand context has known competitors,
\* and a location prompt ("Best <category> in <location>") whenever a location
\* is given, so that those prompts are among the cells tested.
C27_ComparisonAndLocationPromptsTested ==
    (r_pc = "gathering" /\ brand_context # NoContext) =>
        /\ Len(brand_context.known_competitors) > 0 =>
               TestedWith(brand_context.brand_name \o " vs "
                          \o brand_context.known_competitors[1])
        /\ Truthy(brand_context.location) =>
               TestedWith("Best " \o brand_context.product_category \o " in "
                          \o brand_context.location)

-----------------------------------------------------------------------------
(* Properties of the competitor entries of run_test                         *)

\* C28: every competitor entry returned by run_test has a rate that is a
\* percentage in 0..100 and a mention count that does not exceed the number of
\* cells of the run, also for competitor names that differ only in letter case.
C28_CompetitorRateIsPercentage ==
    (r_pc = "done" /\ prompts # <<>>) =>
        \A k \in 1..Len(score_response.competitors) :
            /\ score_response.competitors[k].rate >= 0
            /\ score_response.competitors[k].rate <= 100
            /\ score_response.competitors[k].mentions <= Len(all_results)

-----------------------------------------------------------------------------
(* Properties of the groups of run_test                                     *)

\* C29: in the response of run_test every cell belongs to exactly one prompt
\* group and exactly one model group: the sizes of prompt_results[*].models sum
\* to total_tests and the totals of model_breakdown sum to total_tests, for
\* every prompt list, custom question lists with repeated texts included.
C29_GroupsPartitionCells ==
    Done =>
        /\ Sum([k \in 1..Len(score_response.prompt_results) |->
                   Len(score_response.prompt_results[k].models)])
             = score_response.total_tests
        /\ Sum([k \in 1..Len(score_response.model_breakdown) |->
                   score_response.model_breakdown[k].total])
             = score_response.total_tests

-----------------------------------------------------------------------------
(* Properties of the provider table and the priority order                  *)

\* C30: whenever at least one provider is configured (is_available is true,
\* get_available_providers is not empty), a generate call invokes at least one
\* provider before it returns: some available provider is reached through the
\* priority order, and generate returns None without any upstream attempt only
\* when no provider is configured.
C30_AvailableProviderIsTried ==
    (g_pc = "returned" /\ is_available /\ get_available_providers # {}) =>
        g_tried # <<>>

====
